---- MODULE Spec2Model ----
(***************************************************************************)
(* A model of type-guardian: the type inferrer (type_inferrer.py), the     *)
(* fixers (fixers/*.py) and the batch runner (runner.py: auto_fix_all).    *)
(*                                                                         *)
(* Python strings that name types are sequences of tokens; their order    *)
(* (sorted) is the order of their characters.  A syntax tree is a nested   *)
(* record: every node has a kind k and a line number ln (0: the node has   *)
(* no lineno attribute).  A node's identity is its path from the root.     *)
(***************************************************************************)
EXTENDS Integers, Sequences, FiniteSets, TLC

VARIABLES
    uni,        \* the unifier harness: the sets given to _unify_types and its results
    inf,        \* the inferrer harness: the last call on a TypeInferrer and its result
    tree,       \* the syntax tree in hand (runner: the file being processed)
    type_cache, \* TypeInferrer.type_cache
    strict,     \* TypeInferrer.strict / auto_fix_all(strict=...)
    run,        \* the state of auto_fix_all
    fx,         \* the fixers called one by one on a tree: the last call and its result
    par         \* MypyParser: a message and the category it was given

vars == <<uni, inf, tree, type_cache, strict, run, fx, par>>

(***************************************************************************)
(* Strings                                                                 *)
(***************************************************************************)

\* The characters of each token, as code points.
Chars(tok) ==
    CASE tok = "Any"      -> <<65, 110, 121>>
      [] tok = "Dict"     -> <<68, 105, 99, 116>>
      [] tok = "Iterable" -> <<73, 116, 101, 114, 97, 98, 108, 101>>
      [] tok = "List"     -> <<76, 105, 115, 116>>
      [] tok = "None"     -> <<78, 111, 110, 101>>
      [] tok = "NoneType" -> <<78, 111, 110, 101, 84, 121, 112, 101>>
      [] tok = "Optional" -> <<79, 112, 116, 105, 111, 110, 97, 108>>
      [] tok = "Set"      -> <<83, 101, 116>>
      [] tok = "T"        -> <<84>>
      [] tok = "Tuple"    -> <<84, 117, 112, 108, 101>>
      [] tok = "TypeVar"  -> <<84, 121, 112, 101, 86, 97, 114>>
      [] tok = "Union"    -> <<85, 110, 105, 111, 110>>
      [] tok = "User"     -> <<85, 115, 101, 114>>
      [] tok = "bool"     -> <<98, 111, 111, 108>>
      [] tok = "float"    -> <<102, 108, 111, 97, 116>>
      [] tok = "int"      -> <<105, 110, 116>>
      [] tok = "str"      -> <<115, 116, 114>>
      [] tok = "["        -> <<91>>
      [] tok = "]"        -> <<93>>
      [] tok = ", "       -> <<44, 32>>
      [] tok = "..."      -> <<46, 46, 46>>

RECURSIVE Flat(_)
Flat(s) == IF s = <<>> THEN <<>> ELSE Chars(Head(s)) \o Flat(Tail(s))

RECURSIVE LexLess(_, _)
LexLess(a, b) ==
    IF b = <<>> THEN FALSE
    ELSE IF a = <<>> THEN TRUE
    ELSE IF Head(a) # Head(b) THEN Head(a) < Head(b)
    ELSE LexLess(Tail(a), Tail(b))

\* Python's < on two str values.
StrLess(a, b) == LexLess(Flat(a), Flat(b))

\* sorted(S) for a set of strings.
RECURSIVE sorted(_)
sorted(S) ==
    IF S = {} THEN <<>>
    ELSE LET m == CHOOSE x \in S : \A y \in S \ {x} : StrLess(x, y)
         IN  <<m>> \o sorted(S \ {m})

\* sep.join(parts)
RECURSIVE join(_, _)
join(sep, parts) ==
    IF parts = <<>> THEN <<>>
    ELSE IF Len(parts) = 1 THEN parts[1]
    ELSE parts[1] \o sep \o join(sep, Tail(parts))

\* Python's None where a str is expected (no type string is empty).
NoType == <<>>

Str(tok) == <<tok>>
Sub(name, inner) == <<name, "[">> \o inner \o <<"]">>

(***************************************************************************)
(* TypeInferrer._unify_types                                               *)
(***************************************************************************)

\* A slip: the union lists its members in no particular (here: reverse) order.
unify_types_unsorted(types) ==
    LET ts == {t \in types : t # Str("Any")}
        rev(q) == [i \in 1..Len(q) |-> q[Len(q) + 1 - i]]
    IN  IF types = {} THEN Str("Any")
        ELSE IF ts = {} THEN Str("Any")
        ELSE IF Cardinality(ts) = 1 THEN CHOOSE t \in ts : TRUE
        ELSE IF ts \subseteq {Str("int"), Str("float")}
             THEN (IF Str("float") \in ts THEN Str("float") ELSE Str("int"))
        ELSE Sub("Union", join(Str(", "), rev(sorted(ts))))

_unify_types(types) ==
    LET ts == {t \in types : t # Str("Any")}
    IN  IF types = {} THEN Str("Any")
        ELSE IF ts = {} THEN Str("Any")
        ELSE IF Cardinality(ts) = 1 THEN CHOOSE t \in ts : TRUE
        ELSE IF ts \subseteq {Str("int"), Str("float")}
             THEN (IF Str("float") \in ts THEN Str("float") ELSE Str("int"))
        ELSE Sub("Union", join(Str(", "), sorted(ts)))

(***************************************************************************)
(* Syntax trees (Python's ast)                                             *)
(***************************************************************************)

\* Python's None in an optional child slot (returns, annotation, Return.value).
NoNode == [k |-> "NoNode", ln |-> 0]

Module(body)                == [k |-> "Module", ln |-> 0, body |-> body]
arg(name, annotation)       == [k |-> "arg", ln |-> 0, arg |-> name, annotation |-> annotation]
arguments(args)             == [k |-> "arguments", ln |-> 0, args |-> args]
FunctionDef(name, args, body, returns) ==
    [k |-> "FunctionDef", ln |-> 0, name |-> name, args |-> arguments(args),
     body |-> body, returns |-> returns]
Return(value)               == [k |-> "Return", ln |-> 0, value |-> value]
Assign(targets, value)      == [k |-> "Assign", ln |-> 0, targets |-> targets, value |-> value]
AnnAssign(target, annotation, value) ==
    [k |-> "AnnAssign", ln |-> 0, target |-> target, annotation |-> annotation, value |-> value]
Expr(value)                 == [k |-> "Expr", ln |-> 0, value |-> value]
If(test, body, orelse)      == [k |-> "If", ln |-> 0, test |-> test, body |-> body, orelse |-> orelse]
For(target, iter, body)     == [k |-> "For", ln |-> 0, target |-> target, iter |-> iter, body |-> body]
ImportFrom(module, names)   == [k |-> "ImportFrom", ln |-> 0, module |-> module, names |-> names]
Import(names)               == [k |-> "Import", ln |-> 0, names |-> names]
Pass                        == [k |-> "Pass", ln |-> 0]

\* In a source text only: an assignment written over two lines,
\*     target = (
\*         value)
Wrapped(stmt)               == [k |-> "Wrapped", ln |-> 0, stmt |-> stmt]

\* A constant is kept by the name of its value's type: type(expr.value).__name__
Constant(v)                 == [k |-> "Constant", ln |-> 0, v |-> v]
Name(id)                    == [k |-> "Name", ln |-> 0, id |-> id]
Call(func, args)            == [k |-> "Call", ln |-> 0, func |-> func, args |-> args]
Attribute(value, attr)      == [k |-> "Attribute", ln |-> 0, value |-> value, attr |-> attr]
List(elts)                  == [k |-> "List", ln |-> 0, elts |-> elts]
Set(elts)                   == [k |-> "Set", ln |-> 0, elts |-> elts]
Tuple(elts)                 == [k |-> "Tuple", ln |-> 0, elts |-> elts]
Dict(keys, values)          == [k |-> "Dict", ln |-> 0, keys |-> keys, values |-> values]
BinOp(left, op, right)      == [k |-> "BinOp", ln |-> 0, left |-> left, op |-> op, right |-> right]
Compare(left, ops, comparators) ==
    [k |-> "Compare", ln |-> 0, left |-> left, ops |-> ops, comparators |-> comparators]
BoolOp(values)              == [k |-> "BoolOp", ln |-> 0, values |-> values]
IfExp(test, body, orelse)   == [k |-> "IfExp", ln |-> 0, test |-> test, body |-> body, orelse |-> orelse]
Subscript(value, slice)     == [k |-> "Subscript", ln |-> 0, value |-> value, slice |-> slice]

\* The child fields of a node, in the order of its _fields (ast.iter_child_nodes).
ChildFields(n) ==
    CASE n.k = "Module"      -> <<"body">>
      [] n.k = "FunctionDef" -> <<"args", "body", "returns">>
      [] n.k = "arguments"   -> <<"args">>
      [] n.k = "arg"         -> <<"annotation">>
      [] n.k = "Return"      -> <<"value">>
      [] n.k = "Assign"      -> <<"targets", "value">>
      [] n.k = "AnnAssign"   -> <<"target", "annotation", "value">>
      [] n.k = "Expr"        -> <<"value">>
      [] n.k = "If"          -> <<"test", "body", "orelse">>
      [] n.k = "For"         -> <<"target", "iter", "body">>
      [] n.k = "Call"        -> <<"func", "args">>
      [] n.k = "Attribute"   -> <<"value">>
      [] n.k \in {"List", "Set", "Tuple"} -> <<"elts">>
      [] n.k = "Dict"        -> <<"keys", "values">>
      [] n.k = "BinOp"       -> <<"left", "right">>
      [] n.k = "Compare"     -> <<"left", "comparators">>
      [] n.k = "BoolOp"      -> <<"values">>
      [] n.k = "IfExp"       -> <<"test", "body", "orelse">>
      [] n.k = "Subscript"   -> <<"value", "slice">>
      [] OTHER               -> <<>>

\* Whether field f of a node of kind k holds a list of nodes.
IsList(k, f) ==
    \/ f \in {"targets", "elts", "keys", "values", "comparators"}
    \/ f \in {"body", "orelse"} /\ k # "IfExp"
    \/ f = "args" /\ k \in {"Call", "arguments"}

\* A step from a node to a child: <<field, index>>, index 0 for a single child.
Get(n, step) == IF step[2] = 0 THEN n[step[1]] ELSE n[step[1]][step[2]]
Put(n, step, new) ==
    IF step[2] = 0 THEN [n EXCEPT ![step[1]] = new]
    ELSE [n EXCEPT ![step[1]][step[2]] = new]

StepsOfField(n, f) ==
    IF IsList(n.k, f) THEN [i \in 1..Len(n[f]) |-> <<f, i>>]
    ELSE IF n[f] = NoNode THEN <<>> ELSE << <<f, 0>> >>

RECURSIVE StepsOfFields(_, _)
StepsOfFields(n, fs) ==
    IF fs = <<>> THEN <<>> ELSE StepsOfField(n, Head(fs)) \o StepsOfFields(n, Tail(fs))

\* ast.iter_child_nodes, as steps.
ChildSteps(n) == StepsOfFields(n, ChildFields(n))

\* The node at a path (a sequence of steps) of a tree.
RECURSIVE NodeAt(_, _)
NodeAt(t, path) == IF path = <<>> THEN t ELSE NodeAt(Get(t, Head(path)), Tail(path))

\* The tree with the slot at path overwritten.
RECURSIVE ReplaceAt(_, _, _)
ReplaceAt(t, path, new) ==
    IF path = <<>> THEN new
    ELSE Put(t, Head(path), ReplaceAt(Get(t, Head(path)), Tail(path), new))

\* The members of a sequence.
Range(s) == {s[i] : i \in DOMAIN s}

\* ast.walk: breadth first, children in field order. The paths of all nodes.
RECURSIVE Bfs(_, _, _)
Bfs(t, queue, acc) ==
    IF queue = <<>> THEN acc
    ELSE LET visit(p, cs) ==
                 Bfs(t, Tail(queue) \o [i \in 1..Len(cs) |-> Append(p, cs[i])], Append(acc, p))
         IN  visit(Head(queue), ChildSteps(NodeAt(t, Head(queue))))

walk(t) == Bfs(t, << <<>> >>, <<>>)

\* The nodes of ast.walk(t), in order.
walk_nodes(t) ==
    LET nodes(ps) == [i \in 1..Len(ps) |-> NodeAt(t, ps[i])]
    IN  nodes(walk(t))

(***************************************************************************)
(* Source text and line numbers: ast.parse and ast.unparse                 *)
(***************************************************************************)

NoLineKinds == {"Module", "arguments", "NoNode"}

\* The node with lineno l on it and on every node below it.
RECURSIVE Reline(_, _), RelineKids(_, _, _)
Reline(n, l) ==
    RelineKids([n EXCEPT !.ln = IF n.k \in NoLineKinds THEN 0 ELSE l], ChildSteps(n), l)
RelineKids(n, steps, l) ==
    IF steps = <<>> THEN n
    ELSE RelineKids(Put(n, Head(steps), Reline(Get(n, Head(steps)), l)), Tail(steps), l)

\* ast.unparse of a whole tree: the text keeps the structure and no locations.
unparse(t) == Reline(t, 0)

\* The lines ast.unparse gives the statements of a block, and ast.parse reads
\* back: one line per simple statement, a blank line before every function
\* definition but the first thing written, an else line before a non-empty
\* orelse unless that is a lone If (elif).
RECURSIVE LayStmt(_, _), LayBody(_, _, _, _)
LayStmt(s, line) ==
    LET elif == Len(s.orelse) = 1 /\ s.orelse[1].k = "If"
        def(b) ==
            [node |-> [s EXCEPT !.ln = line, !.args = Reline(s.args, line),
                                !.returns = Reline(s.returns, line), !.body = b.body],
             next |-> b.next]
        cond(b, e) ==
            [node |-> [s EXCEPT !.ln = line, !.test = Reline(s.test, line),
                                !.body = b.body, !.orelse = e.body],
             next |-> e.next]
        branches(b) ==
            cond(b, IF s.orelse = <<>> THEN [body |-> <<>>, next |-> b.next]
                    ELSE LayBody(s.orelse, 1, IF elif THEN b.next ELSE b.next + 1, <<>>))
        loop(b) ==
            [node |-> [s EXCEPT !.ln = line, !.target = Reline(s.target, line),
                                !.iter = Reline(s.iter, line), !.body = b.body],
             next |-> b.next]
    IN  CASE s.k = "FunctionDef" -> def(LayBody(s.body, 1, line + 1, <<>>))
          [] s.k = "If"          -> branches(LayBody(s.body, 1, line + 1, <<>>))
          [] s.k = "For"         -> loop(LayBody(s.body, 1, line + 1, <<>>))
          [] s.k = "Wrapped"     ->
                [node |-> [Reline(s.stmt, line) EXCEPT !.value = Reline(s.stmt.value, line + 1)],
                 next |-> line + 2]
          [] OTHER               -> [node |-> Reline(s, line), next |-> line + 1]
LayBody(stmts, i, line, acc) ==
    IF i > Len(stmts) THEN [body |-> acc, next |-> line]
    ELSE LET then(r) == LayBody(stmts, i + 1, r.next, Append(acc, r.node))
         IN  then(LayStmt(stmts[i],
                          IF stmts[i].k = "FunctionDef" /\ line > 1 THEN line + 1 ELSE line))

\* A file whose text is not Python: ast.parse raises SyntaxError.
SyntaxErrorText == [k |-> "SyntaxError", ln |-> 0]

\* No file of that name: file_path.exists() is False.
Missing == [k |-> "Missing", ln |-> 0]

\* ast.parse(source) of a parsable text.
parse(text) == [text EXCEPT !.body = LayBody(text.body, 1, 1, <<>>).body]

(***************************************************************************)
(* Type strings and annotation nodes                                       *)
(***************************************************************************)

\* ast.unparse of an annotation expression.
RECURSIVE unparse_expr(_), unparse_all(_)
unparse_expr(e) ==
    CASE e.k = "Name" -> Str(e.id)
      [] e.k = "Constant" ->
            IF e.v = "NoneType" THEN Str("None")
            ELSE IF e.v = "ellipsis" THEN Str("...") ELSE Str(e.v)
      [] e.k = "Subscript" ->
            unparse_expr(e.value) \o Str("[")
                \o (IF e.slice.k = "Tuple" /\ e.slice.elts # <<>>
                    THEN join(Str(", "), unparse_all(e.slice.elts))
                    ELSE unparse_expr(e.slice))
                \o Str("]")
      [] e.k = "Tuple" -> Str("(") \o join(Str(", "), unparse_all(e.elts)) \o Str(")")
      [] OTHER -> Str("?")
unparse_all(es) == [i \in 1..Len(es) |-> unparse_expr(es[i])]

\* ast.parse(type_str, mode='eval'): a name, optionally subscripted by one or
\* more comma-separated types. [ok, node, next]; ok = FALSE is a SyntaxError.
RECURSIVE ParseType(_, _), ParseTypes(_, _, _)
ParseType(toks, i) ==
    IF i > Len(toks) \/ toks[i] \in {"[", "]", ", "}
    THEN [ok |-> FALSE, node |-> NoNode, next |-> i]
    ELSE LET atom == IF toks[i] = "None" THEN Constant("NoneType")
                     ELSE IF toks[i] = "..." THEN Constant("ellipsis")
                     ELSE Name(toks[i])
             subscript(items) ==
                 IF ~items.ok \/ items.next > Len(toks) \/ toks[items.next] # "]"
                 THEN [ok |-> FALSE, node |-> NoNode, next |-> i]
                 ELSE [ok |-> TRUE,
                       node |-> Subscript(atom, IF Len(items.nodes) = 1 THEN items.nodes[1]
                                                ELSE Tuple(items.nodes)),
                       next |-> items.next + 1]
         IN  IF i + 1 <= Len(toks) /\ toks[i + 1] = "["
             THEN subscript(ParseTypes(toks, i + 2, <<>>))
             ELSE [ok |-> TRUE, node |-> atom, next |-> i + 1]
ParseTypes(toks, i, acc) ==
    LET then(one) ==
            IF ~one.ok THEN [ok |-> FALSE, nodes |-> acc, next |-> i]
            ELSE IF one.next <= Len(toks) /\ toks[one.next] = ", "
                 THEN ParseTypes(toks, one.next + 1, Append(acc, one.node))
            ELSE [ok |-> TRUE, nodes |-> Append(acc, one.node), next |-> one.next]
    IN  then(ParseType(toks, i))

\* _type_str_to_ast (the same in every fixer): the parsed expression, whose
\* nodes all lie on line 1 of the parsed string; Name('Any') on a SyntaxError.
_type_str_to_ast(type_str) ==
    LET body(r) == IF r.ok /\ r.next = Len(type_str) + 1 THEN Reline(r.node, 1) ELSE Name("Any")
    IN  body(ParseType(type_str, 1))

(***************************************************************************)
(* TypeInferrer (inference/type_inferrer.py)                               *)
(*                                                                         *)
(* An inference returns [ty, cache, err]: the type string (NoType for      *)
(* Python's None), the type_cache afterwards, and err = TRUE when the call *)
(* never returns normally: _lookup_variable_type entered for a name whose  *)
(* lookup is still in progress recurses without end (RecursionError).      *)
(***************************************************************************)

Ret(ty, cache) == [ty |-> ty, cache |-> cache, err |-> FALSE]
Raised(cache)  == [ty |-> NoType, cache |-> cache, err |-> TRUE]

\* 'Any' if not self.strict else None
DefaultType(st) == IF st THEN NoType ELSE Str("Any")

_python_type_to_typing(py_type) ==
    CASE py_type = "NoneType" -> Str("None")
      [] py_type = "list"     -> Sub("List", Str("Any"))
      [] py_type = "dict"     -> Sub("Dict", <<"str", ", ", "Any">>)
      [] py_type = "set"      -> Sub("Set", Str("Any"))
      [] py_type = "tuple"    -> Sub("Tuple", <<"Any", ", ", "...">>)
      [] OTHER                -> Str(py_type)

IsNameOf(n, id) == n.k = "Name" /\ n.id = id

\* [n.value for n in nodes]
ValuesOf(nodes) == [i \in 1..Len(nodes) |-> nodes[i].value]

\* _find_assignments: the Assign nodes with a Name target var_name, in walk order.
_find_assignments(var_name, t) ==
    SelectSeq(walk_nodes(t),
              LAMBDA n : n.k = "Assign" /\ \E i \in 1..Len(n.targets) : IsNameOf(n.targets[i], var_name))

\* _find_function: the first FunctionDef of that name in walk order, or NoNode.
_find_function(func_name, t) ==
    LET first(fs) == IF fs = <<>> THEN NoNode ELSE fs[1]
    IN  first(SelectSeq(walk_nodes(t), LAMBDA n : n.k = "FunctionDef" /\ n.name = func_name))

Constructors == {"str", "int", "float", "bool", "list", "dict", "set"}
Arithmetic   == {"Add", "Sub", "Mult", "Div"}
Numeric      == {Str("int"), Str("float")}

\* The set of the types in a sequence, None discarded.
TypesOf(tys) == {tys[i] : i \in 1..Len(tys)} \ {NoType}

\* types.pop() if len(types) == 1 else default
OnlyOr(types, default) == IF Cardinality(types) = 1 THEN CHOOSE t \in types : TRUE ELSE default

\* The List and Set branches of _infer_expr_type: one element type, or Any.
container_type(name, has_elts, types) ==
    IF has_elts THEN Sub(name, OnlyOr(types, Str("Any"))) ELSE Sub(name, Str("Any"))

RECURSIVE _infer_expr_type(_, _, _, _, _), _lookup_variable_type(_, _, _, _, _),
          infer_each(_, _, _, _, _, _)

\* [self._infer_expr_type(e, context) for e in exprs], left to right:
\* [tys, cache, err].
infer_each(exprs, context, cache, st, stack, acc) ==
    LET then(r) ==
            IF r.err THEN [tys |-> acc, cache |-> r.cache, err |-> TRUE]
            ELSE infer_each(Tail(exprs), context, r.cache, st, stack, Append(acc, r.ty))
    IN  IF exprs = <<>> THEN [tys |-> acc, cache |-> cache, err |-> FALSE]
        ELSE then(_infer_expr_type(Head(exprs), context, cache, st, stack))

_lookup_variable_type(var_name, context, cache, st, stack) ==
    LET cached(r) ==
            IF r.err THEN r
            ELSE IF r.ty # NoType
                 THEN Ret(r.ty, [n \in DOMAIN r.cache \cup {var_name} |->
                                   IF n = var_name THEN r.ty ELSE r.cache[n]])
            ELSE Ret(NoType, r.cache)
        first_of(assignments) ==
            IF assignments = <<>> THEN Ret(NoType, cache)
            ELSE cached(_infer_expr_type(assignments[1].value, context, cache, st,
                                         stack \cup {var_name}))
    IN  IF var_name \in DOMAIN cache THEN Ret(cache[var_name], cache)
        ELSE IF var_name \in stack THEN Raised(cache)
        ELSE first_of(_find_assignments(var_name, context))

_infer_expr_type(expr, context, cache, st, stack) ==
    LET each(exprs, c) == infer_each(exprs, context, c, st, stack, <<>>)
        one(e, c) == _infer_expr_type(e, context, c, st, stack)
        returns_of(func_def) ==
            IF func_def # NoNode /\ func_def.returns # NoNode
            THEN Ret(unparse_expr(func_def.returns), cache)
            ELSE Ret(DefaultType(st), cache)
        elements(r) ==
            IF r.err THEN Raised(r.cache)
            ELSE Ret(container_type(expr.k, expr.elts # <<>>, TypesOf(r.tys)), r.cache)
        items(ks, vs) ==
            IF ks.err THEN Raised(ks.cache)
            ELSE IF vs.err THEN Raised(vs.cache)
            ELSE Ret(Sub("Dict", OnlyOr(TypesOf(ks.tys), Str("str")) \o Str(", ")
                                    \o OnlyOr(TypesOf(vs.tys), Str("Any"))), vs.cache)
        keys(ks) == items(ks, each(expr.values, ks.cache))
        positions(r) ==
            IF r.err THEN Raised(r.cache)
            ELSE IF \A i \in 1..Len(r.tys) : r.tys[i] # NoType
                 THEN Ret(Sub("Tuple", join(Str(", "), r.tys)), r.cache)
            ELSE Ret(Sub("Tuple", <<"Any", ", ", "...">>), r.cache)
        operands(l, r) ==
            IF l.err THEN l
            ELSE IF r.err THEN r
            ELSE IF expr.op \in Arithmetic /\ (l.ty \in Numeric \/ r.ty \in Numeric)
                 THEN Ret(IF Str("float") \in {l.ty, r.ty} THEN Str("float") ELSE Str("int"),
                          r.cache)
            ELSE Ret(DefaultType(st), r.cache)
        left(l) == operands(l, one(expr.right, l.cache))
        arms(b, e) ==
            IF b.err THEN b
            ELSE IF e.err THEN e
            ELSE IF b.ty # NoType /\ e.ty # NoType
                 THEN Ret(IF b.ty = e.ty THEN b.ty ELSE _unify_types({b.ty, e.ty}), e.cache)
            ELSE Ret(DefaultType(st), e.cache)
        body(b) == arms(b, one(expr.orelse, b.cache))
    IN  CASE expr.k = "Constant" -> Ret(_python_type_to_typing(expr.v), cache)
          [] expr.k = "Name" -> _lookup_variable_type(expr.id, context, cache, st, stack)
          [] expr.k = "Call" ->
                IF expr.func.k = "Name"
                THEN IF expr.func.id \in Constructors
                     THEN Ret(_python_type_to_typing(expr.func.id), cache)
                     ELSE returns_of(_find_function(expr.func.id, context))
                ELSE Ret(DefaultType(st), cache)
          [] expr.k \in {"List", "Set"} -> elements(each(expr.elts, cache))
          [] expr.k = "Dict" -> keys(each(expr.keys, cache))
          [] expr.k = "Tuple" -> positions(each(expr.elts, cache))
          [] expr.k = "BinOp" -> left(one(expr.left, cache))
          [] expr.k \in {"Compare", "BoolOp"} -> Ret(Str("bool"), cache)
          [] expr.k = "IfExp" -> body(one(expr.body, cache))
          [] OTHER -> Ret(DefaultType(st), cache)

\* Optional[...] around a type when a value-less return occurred.
WithOptional(ty, has_none_return) == IF has_none_return THEN Sub("Optional", ty) ELSE ty

\* infer_return_type(func): [ty, cache, err].
infer_return_type(func, cache, st) ==
    LET result(has_none_return, r) ==
            IF r.err THEN Raised(r.cache)
            ELSE IF TypesOf(r.tys) = {} THEN Ret(Str("None"), r.cache)
            ELSE IF Cardinality(TypesOf(r.tys)) = 1
                 THEN Ret(WithOptional(CHOOSE t \in TypesOf(r.tys) : TRUE, has_none_return),
                          r.cache)
            ELSE Ret(WithOptional(_unify_types(TypesOf(r.tys)), has_none_return), r.cache)
        of(returns) ==
            result(\E i \in 1..Len(returns) : returns[i].value = NoNode,
                   infer_each(ValuesOf(SelectSeq(returns, LAMBDA n : n.value # NoNode)),
                              func, cache, st, {}, <<>>))
    IN  of(SelectSeq(walk_nodes(func), LAMBDA n : n.k = "Return"))

Pattern(type, method, key_type, op) ==
    [type |-> type, method |-> method, key_type |-> key_type, op |-> op]

\* _analyze_param_usage: the usage patterns of param_name in walk order:
\* [patterns, cache, err] (a subscript's key type is inferred on the way).
RECURSIVE analyze_nodes(_, _, _, _, _, _)
analyze_nodes(nodes, param_name, func, cache, st, acc) ==
    LET more(c, a) == analyze_nodes(Tail(nodes), param_name, func, c, st, a)
        key(r) ==
            IF r.err THEN [patterns |-> acc, cache |-> r.cache, err |-> TRUE]
            ELSE more(r.cache, Append(acc, Pattern("subscript", "", r.ty, "")))
        visit(node) ==
            CASE node.k = "Call" ->
                    IF node.func.k = "Attribute" /\ IsNameOf(node.func.value, param_name)
                    THEN more(cache, Append(acc, Pattern("method_call", node.func.attr, NoType, "")))
                    ELSE more(cache, acc)
              [] node.k = "Subscript" /\ IsNameOf(node.value, param_name) ->
                    key(_infer_expr_type(node.slice, func, cache, st, {}))
              [] node.k = "For" /\ IsNameOf(node.iter, param_name) ->
                    more(cache, Append(acc, Pattern("iteration", "", NoType, "")))
              [] node.k = "BinOp" /\ IsNameOf(node.left, param_name) ->
                    more(cache, Append(acc, Pattern("binop", "", NoType, node.op)))
              [] OTHER -> more(cache, acc)
    IN  IF nodes = <<>> THEN [patterns |-> acc, cache |-> cache, err |-> FALSE]
        ELSE visit(Head(nodes))

_analyze_param_usage(param_name, func, cache, st) ==
    analyze_nodes(walk_nodes(func), param_name, func, cache, st, <<>>)

\* The type one pattern implies, NoType when it implies none.
PatternType(pattern) ==
    CASE pattern.type = "method_call" ->
            IF pattern.method \in {"lower", "upper", "strip", "split", "replace"} THEN Str("str")
            ELSE IF pattern.method \in {"append", "extend", "pop", "remove"}
                 THEN Sub("List", Str("Any"))
            ELSE IF pattern.method \in {"get", "keys", "values", "items"}
                 THEN Sub("Dict", <<"str", ", ", "Any">>)
            ELSE NoType
      [] pattern.type = "subscript" ->
            IF pattern.key_type = Str("int") THEN Sub("List", Str("Any"))
            ELSE IF pattern.key_type = Str("str") THEN Sub("Dict", <<"str", ", ", "Any">>)
            ELSE NoType
      [] pattern.type = "iteration" -> Sub("Iterable", Str("Any"))
      [] pattern.type = "binop" ->
            IF pattern.op \in Arithmetic THEN Str("int") ELSE NoType

\* _infer_from_patterns: the type of the first pattern that implies one.
_infer_from_patterns(patterns, st) ==
    LET first(hits) == IF hits = <<>> THEN DefaultType(st) ELSE PatternType(hits[1])
    IN  first(SelectSeq(patterns, LAMBDA p : PatternType(p) # NoType))

\* infer_param_type(param_name, func): [ty, cache, err].
infer_param_type(param_name, func, cache, st) ==
    LET of(a) ==
            IF a.err THEN Raised(a.cache)
            ELSE IF a.patterns = <<>> THEN Ret(DefaultType(st), a.cache)
            ELSE Ret(_infer_from_patterns(a.patterns, st), a.cache)
    IN  of(_analyze_param_usage(param_name, func, cache, st))

\* infer_variable_type(var_name, context, tree): [ty, cache, err].
infer_variable_type(var_name, context, t, cache, st) ==
    LET unified(r) ==
            IF r.err THEN Raised(r.cache)
            ELSE IF TypesOf(r.tys) = {} THEN Ret(DefaultType(st), r.cache)
            ELSE Ret(_unify_types(TypesOf(r.tys)), r.cache)
        immediate(first) ==
            IF first.err THEN first
            ELSE IF first.ty # NoType /\ first.ty # Str("Any") THEN first
            ELSE unified(infer_each(ValuesOf(_find_assignments(var_name, t)), t,
                                    first.cache, st, {}, <<>>))
    IN  immediate(IF context.k = "Assign"
                  THEN _infer_expr_type(context.value, t, cache, st, {})
                  ELSE Ret(NoType, cache))

(***************************************************************************)
(* The fixers (fixers/*.py).  fix(error, tree) gives [tree, fixed, cache,  *)
(* err]: the tree as the fixer leaves it, whether a fix was applied, the   *)
(* inferrer's cache afterwards, and err = TRUE when the call raises.       *)
(***************************************************************************)

Fixed(t, fixed, cache) == [tree |-> t, fixed |-> fixed, cache |-> cache, err |-> FALSE]
FixRaised(t, cache)    == [tree |-> t, fixed |-> FALSE, cache |-> cache, err |-> TRUE]

\* No node (Python's None where a node is looked for): a path no node has.
NoPath == << <<"none", 0>> >>

\* _find_node_at_line (the same in three fixers): the first node of ast.walk
\* that has a lineno equal to line, as its path.
_find_node_at_line(t, line) ==
    LET first(ps) == IF ps = <<>> THEN NoPath ELSE ps[1]
    IN  first(SelectSeq(walk(t), LAMBDA p : NodeAt(t, p).ln = line))

\* ast.copy_location(new_node, old_node)
copy_location(new_node, old_node) == [new_node EXCEPT !.ln = old_node.ln]

\* _replace_node of MissingHintsFixer: the slot that holds old_node (the node
\* at path old) gets new_node; the new node keeps its own (missing) location.
_replace_node(t, old, new_node) == ReplaceAt(t, old, new_node)

\* _replace_node of OptionalFixer and CollectionFixer: as above, and the new
\* node takes over the location of the old one.
_replace_node_located(t, old, new_node) ==
    ReplaceAt(t, old, copy_location(new_node, NodeAt(t, old)))

\* The loop of _fix_function_hints over node.args.args, from the i-th argument
\* on: [node, modified, cache, err].
RECURSIVE annotate_params(_, _, _, _, _)
annotate_params(node, i, modified, cache, st) ==
    LET annotate(r) ==
            IF r.err THEN [node |-> node, modified |-> modified, cache |-> r.cache, err |-> TRUE]
            ELSE IF r.ty # NoType
                 THEN annotate_params(
                          [node EXCEPT !.args.args[i].annotation = _type_str_to_ast(r.ty)],
                          i + 1, TRUE, r.cache, st)
            ELSE annotate_params(node, i + 1, modified, r.cache, st)
    IN  IF i > Len(node.args.args)
        THEN [node |-> node, modified |-> modified, cache |-> cache, err |-> FALSE]
        ELSE IF node.args.args[i].annotation # NoNode
             THEN annotate_params(node, i + 1, modified, cache, st)
        ELSE annotate(infer_param_type(node.args.args[i].arg, node, cache, st))

\* MissingHintsFixer._fix_function_hints on the function at path p.
_fix_function_hints(p, t, error, cache, st) ==
    LET done(r) ==
            IF r.err THEN FixRaised(t, r.cache)
            ELSE Fixed(ReplaceAt(t, p, r.node), r.modified, r.cache)
        params(node, modified, c) == done(annotate_params(node, 1, modified, c, st))
        returns(node, r) ==
            IF r.err THEN FixRaised(t, r.cache)
            ELSE IF r.ty # NoType
                 THEN params([node EXCEPT !.returns = _type_str_to_ast(r.ty)], TRUE, r.cache)
            ELSE params(node, FALSE, r.cache)
        start(node) ==
            IF error.return_type /\ node.returns = NoNode
            THEN returns(node, infer_return_type(node, cache, st))
            ELSE params(node, FALSE, cache)
    IN  start(NodeAt(t, p))

\* MissingHintsFixer._fix_variable_hint on the assignment at path p.
_fix_variable_hint(p, t, error, cache, st) ==
    LET annotated(node, r) ==
            IF r.err THEN FixRaised(t, r.cache)
            ELSE IF r.ty = NoType THEN Fixed(t, FALSE, r.cache)
            ELSE Fixed(_replace_node(t, p, AnnAssign(node.targets[1], _type_str_to_ast(r.ty),
                                                     node.value)),
                       TRUE, r.cache)
        start(node) ==
            IF Len(node.targets) # 1 THEN Fixed(t, FALSE, cache)
            ELSE IF node.targets[1].k # "Name" THEN Fixed(t, FALSE, cache)
            ELSE annotated(node, infer_variable_type(node.targets[1].id, node, t, cache, st))
    IN  start(NodeAt(t, p))

\* MissingHintsFixer.fix
MissingHintsFixer_fix(error, t, cache, st) ==
    LET at(p) ==
            IF p = NoPath THEN Fixed(t, FALSE, cache)
            ELSE IF NodeAt(t, p).k = "FunctionDef" THEN _fix_function_hints(p, t, error, cache, st)
            ELSE IF NodeAt(t, p).k = "Assign" THEN _fix_variable_hint(p, t, error, cache, st)
            ELSE Fixed(t, FALSE, cache)
    IN  at(_find_node_at_line(t, error.line))

\* OptionalFixer._checks_none
_checks_none(test, var_name) ==
    /\ test.k = "Compare"
    /\ IsNameOf(test.left, var_name)
    /\ \E i \in 1..Len(test.ops) : test.ops[i] \in {"IsNot", "Is"}
    /\ \E i \in 1..Len(test.comparators) :
          test.comparators[i].k = "Constant" /\ test.comparators[i].v = "NoneType"

\* OptionalFixer._node_in_body: the node at path p is one of the nodes walked
\* from the statements of the body of the node at path q.
_node_in_body(p, q) ==
    /\ Len(p) > Len(q)
    /\ SubSeq(p, 1, Len(q)) = q
    /\ p[Len(q) + 1][1] = "body"

\* OptionalFixer._is_already_guarded
_is_already_guarded(t, p, var_name) ==
    \E q \in Range(walk(t)) :
        /\ NodeAt(t, q).k = "If"
        /\ _checks_none(NodeAt(t, q).test, var_name)
        /\ _node_in_body(p, q)

\* OptionalFixer._fix_optional_attribute_access on the attribute at path p.
_fix_optional_attribute_access(p, t, cache) ==
    LET start(node) ==
            IF node.value.k # "Name" THEN Fixed(t, FALSE, cache)
            ELSE IF _is_already_guarded(t, p, node.value.id) THEN Fixed(t, FALSE, cache)
            ELSE Fixed(_replace_node_located(t, p,
                           IfExp(Compare(Name(node.value.id), <<"IsNot">>,
                                         <<Constant("NoneType")>>),
                                 node, Constant("NoneType"))),
                       TRUE, cache)
    IN  start(NodeAt(t, p))

\* OptionalFixer._fix_optional_call on the call at path p.
_fix_optional_call(p, t, cache) ==
    IF NodeAt(t, p).func.k = "Attribute"
    THEN _fix_optional_attribute_access(Append(p, <<"func", 0>>), t, cache)
    ELSE Fixed(t, FALSE, cache)

\* OptionalFixer.fix
OptionalFixer_fix(error, t, cache) ==
    LET at(p) ==
            IF p = NoPath THEN Fixed(t, FALSE, cache)
            ELSE IF NodeAt(t, p).k = "Attribute" THEN _fix_optional_attribute_access(p, t, cache)
            ELSE IF NodeAt(t, p).k = "Call" THEN _fix_optional_call(p, t, cache)
            ELSE Fixed(t, FALSE, cache)
    IN  at(_find_node_at_line(t, error.line))

\* A type variable declaration: name = TypeVar(...)
IsTypeVarAssign(n) ==
    n.k = "Assign" /\ n.value.k = "Call" /\ n.value.func.k = "Name" /\ n.value.func.id = "TypeVar"

\* list.insert(pos, item): item stands after the first pos members.
Insert(body, pos, item) == SubSeq(body, 1, pos) \o <<item>> \o SubSeq(body, pos + 1, Len(body))

\* The loop of _find_or_create_typevar over tree.body: insert_pos.
RECURSIVE typevar_position(_, _, _)
typevar_position(body, i, insert_pos) ==
    IF i > Len(body) THEN insert_pos
    ELSE IF body[i].k \in {"Import", "ImportFrom"} THEN typevar_position(body, i + 1, i)
    ELSE IF body[i].k = "FunctionDef" THEN insert_pos
    ELSE typevar_position(body, i + 1, insert_pos)

\* GenericFixer._find_or_create_typevar: [name, tree, created, pos]: the type
\* variable's name, the tree (with a new declaration after its first pos
\* statements when created).
_find_or_create_typevar(t) ==
    LET create(pos) ==
            [name |-> "T", created |-> TRUE, pos |-> pos,
             tree |-> [t EXCEPT !.body = Insert(t.body, pos,
                          Assign(<<Name("T")>>, Call(Name("TypeVar"), <<Constant("str")>>)))]]
        find(found) ==
            IF found # <<>>
            THEN [name |-> found[1].targets[1].id, created |-> FALSE, pos |-> 0, tree |-> t]
            ELSE create(typevar_position(t.body, 1, 0))
    IN  find(SelectSeq(walk_nodes(t),
                       LAMBDA n : IsTypeVarAssign(n) /\ n.targets # <<>> /\ n.targets[1].k = "Name"))

\* GenericFixer._needs_type_param
_needs_type_param(annotation) ==
    annotation.k = "Name"
        /\ annotation.id \in {"List", "Dict", "Set", "Tuple", "Optional", "Union"}

\* GenericFixer._add_type_param
_add_type_param(annotation, type_var) ==
    IF annotation.k = "Name" /\ annotation.id \in {"List", "Set"}
    THEN Subscript(Name(annotation.id), Name(type_var))
    ELSE IF annotation.k = "Name" /\ annotation.id = "Dict"
    THEN Subscript(Name("Dict"), Tuple(<<Name("str"), Name(type_var)>>))
    ELSE IF annotation.k = "Name" /\ annotation.id = "Optional"
    THEN Subscript(Name("Optional"), Name(type_var))
    ELSE annotation

\* The path of a node of the module after a statement was inserted after the
\* first pos statements of the module body.
Shifted(p, pos) ==
    IF p[1][1] = "body" /\ p[1][2] > pos THEN << <<"body", p[1][2] + 1>> >> \o Tail(p) ELSE p

\* GenericFixer._fix_generic_function on the function at path p.
_fix_generic_function(p, t, cache) ==
    LET param(a, type_var) ==
            IF a.annotation # NoNode /\ _needs_type_param(a.annotation)
            THEN [a EXCEPT !.annotation = _add_type_param(a.annotation, type_var)]
            ELSE a
        rewritten(node, type_var) ==
            [node EXCEPT
                !.args.args = [i \in 1..Len(node.args.args) |-> param(node.args.args[i], type_var)],
                !.returns = IF node.returns # NoNode /\ _needs_type_param(node.returns)
                            THEN _add_type_param(node.returns, type_var)
                            ELSE node.returns]
        modified(node) ==
            \/ \E i \in 1..Len(node.args.args) :
                  /\ node.args.args[i].annotation # NoNode
                  /\ _needs_type_param(node.args.args[i].annotation)
            \/ node.returns # NoNode /\ _needs_type_param(node.returns)
        update(tv, q) ==
            Fixed(ReplaceAt(tv.tree, q, rewritten(NodeAt(tv.tree, q), tv.name)),
                  modified(NodeAt(tv.tree, q)), cache)
        with(tv) == update(tv, IF tv.created THEN Shifted(p, tv.pos) ELSE p)
    IN  with(_find_or_create_typevar(t))

\* GenericFixer.fix
GenericFixer_fix(error, t, cache) ==
    LET at(p) ==
            IF p = NoPath THEN Fixed(t, FALSE, cache)
            ELSE IF NodeAt(t, p).k = "FunctionDef" THEN _fix_generic_function(p, t, cache)
            ELSE Fixed(t, FALSE, cache)
    IN  at(_find_node_at_line(t, error.line))

\* "Union[" + ", ".join(sorted(types)) + "]"
UnionOf(types) == Sub("Union", join(Str(", "), sorted(types)))

\* CollectionFixer._get_expr_type
_get_expr_type(node) ==
    IF node.k = "Constant" THEN Str(node.v)
    ELSE IF node.k = "Call" /\ node.func.k = "Name" THEN Str(node.func.id)
    ELSE NoType

\* The set of the types _get_expr_type gives the nodes, None left out.
ExprTypes(nodes) == TypesOf([i \in 1..Len(nodes) |-> _get_expr_type(nodes[i])])

\* CollectionFixer._infer_from_literal
_infer_from_literal(node) ==
    IF node.k \in {"List", "Set"} /\ node.elts # <<>>
    THEN IF Cardinality(ExprTypes(node.elts)) = 1 THEN CHOOSE ty \in ExprTypes(node.elts) : TRUE
         ELSE IF Cardinality(ExprTypes(node.elts)) > 1 THEN UnionOf(ExprTypes(node.elts))
         ELSE NoType
    ELSE NoType

\* CollectionFixer._infer_dict_types
_infer_dict_types(node) ==
    IF node.keys = <<>> THEN [key |-> NoType, val |-> NoType]
    ELSE [key |-> OnlyOr(ExprTypes(node.keys), Str("str")),
          val |-> OnlyOr(ExprTypes(node.values), Str("Any"))]

\* As _infer_from_usage, but blind to add calls.
infer_from_usage_append_only(t, var_name) ==
    LET appended(calls) == ExprTypes([i \in 1..Len(calls) |-> calls[i].args[1]])
        result(types) ==
            IF Cardinality(types) = 1 THEN Sub("List", CHOOSE ty \in types : TRUE)
            ELSE IF Cardinality(types) > 1 THEN Sub("List", UnionOf(types))
            ELSE NoType
    IN  result(appended(SelectSeq(walk_nodes(t),
                   LAMBDA n : /\ n.k = "Call"
                              /\ n.func.k = "Attribute"
                              /\ IsNameOf(n.func.value, var_name)
                              /\ n.func.attr = "append"
                              /\ n.args # <<>>)))

\* CollectionFixer._infer_from_usage
_infer_from_usage(t, var_name) ==
    LET appended(calls) == ExprTypes([i \in 1..Len(calls) |-> calls[i].args[1]])
        result(types) ==
            IF Cardinality(types) = 1 THEN Sub("List", CHOOSE ty \in types : TRUE)
            ELSE IF Cardinality(types) > 1 THEN Sub("List", UnionOf(types))
            ELSE NoType
    IN  result(appended(SelectSeq(walk_nodes(t),
                   LAMBDA n : /\ n.k = "Call"
                              /\ n.func.k = "Attribute"
                              /\ IsNameOf(n.func.value, var_name)
                              /\ n.func.attr \in {"append", "add"}
                              /\ n.args # <<>>)))

\* CollectionFixer._infer_collection_type
_infer_collection_type(node, t, var_name) ==
    LET default ==
            CASE node.value.k = "List" -> Sub("List", Str("Any"))
              [] node.value.k = "Dict" -> Sub("Dict", <<"str", ", ", "Any">>)
              [] node.value.k = "Set"  -> Sub("Set", Str("Any"))
              [] OTHER                 -> NoType
        usage(usage_type) == IF usage_type # NoType THEN usage_type ELSE default
        dict(d) ==
            IF d.key # NoType /\ d.val # NoType THEN Sub("Dict", d.key \o Str(", ") \o d.val)
            ELSE usage(_infer_from_usage(t, var_name))
        literal(element_type) ==
            IF element_type # NoType THEN Sub(node.value.k, element_type)
            ELSE usage(_infer_from_usage(t, var_name))
    IN  IF node.value.k \in {"List", "Set"} THEN literal(_infer_from_literal(node.value))
        ELSE IF node.value.k = "Dict" THEN dict(_infer_dict_types(node.value))
        ELSE usage(_infer_from_usage(t, var_name))

\* CollectionFixer._find_assignment: the first assignment of ast.walk on that
\* line with a target of that name, as its path.
_find_assignment(t, var_name, line) ==
    LET first(ps) == IF ps = <<>> THEN NoPath ELSE ps[1]
        named(n) ==
            /\ n.k = "Assign"
            /\ n.ln = line
            /\ \E i \in 1..Len(n.targets) : IsNameOf(n.targets[i], var_name)
    IN  first(SelectSeq(walk(t), LAMBDA p : named(NodeAt(t, p))))

\* CollectionFixer.fix
CollectionFixer_fix(error, t, cache) ==
    LET annotated(p, node, collection_type) ==
            IF collection_type = NoType THEN Fixed(t, FALSE, cache)
            ELSE Fixed(_replace_node_located(t, p,
                           AnnAssign(node.targets[1], _type_str_to_ast(collection_type),
                                     node.value)),
                       TRUE, cache)
        at(p) ==
            IF p = NoPath THEN Fixed(t, FALSE, cache)
            ELSE annotated(p, NodeAt(t, p), _infer_collection_type(NodeAt(t, p), t, error.name))
    IN  IF error.name = "" THEN Fixed(t, FALSE, cache)
        ELSE at(_find_assignment(t, error.name, error.line))

\* ImportFixer.TYPING_IMPORTS
TYPING_IMPORTS ==
    {"List", "Dict", "Set", "Tuple", "Optional", "Union", "Any", "TypeVar", "Generic",
     "Protocol", "Callable", "Iterable", "Sequence", "Mapping", "Type", "ClassVar", "Final"}

\* sorted(names), for names of one token each.
SortedNames(names) ==
    LET listed(q) == [i \in 1..Len(q) |-> q[i][1]]
    IN  listed(sorted({Str(n) : n \in names}))

\* ImportFixer._find_needed_imports
_find_needed_imports(t) ==
    LET annotated(nodes) ==
            {i \in DOMAIN nodes : nodes[i].k \in {"FunctionDef", "arg", "AnnAssign"}}
        names(nodes) ==
            {nodes[i].id : i \in {c \in DOMAIN nodes : nodes[c].k = "Name"}}
                \cup {nodes[i].value.id :
                         i \in {c \in DOMAIN nodes :
                                   nodes[c].k = "Subscript" /\ nodes[c].value.k = "Name"}}
        needed(nodes) ==
            UNION {names(walk_nodes(nodes[i])) \cap TYPING_IMPORTS : i \in annotated(nodes)}
                \cup (IF \E i \in DOMAIN nodes : IsTypeVarAssign(nodes[i])
                      THEN {"TypeVar"} ELSE {})
    IN  needed(walk_nodes(t))

\* ImportFixer._find_existing_imports: the loop over tree.body from the i-th
\* statement on.
RECURSIVE existing_imports(_, _, _)
existing_imports(body, i, existing) ==
    IF i > Len(body) THEN existing
    ELSE IF body[i].k = "ImportFrom" /\ body[i].module = "typing"
         THEN IF "*" \in Range(body[i].names) THEN TYPING_IMPORTS
              ELSE existing_imports(body, i + 1, existing \cup Range(body[i].names))
    ELSE IF body[i].k = "Import" /\ "typing" \in Range(body[i].names) THEN TYPING_IMPORTS
    ELSE existing_imports(body, i + 1, existing)

_find_existing_imports(t) == existing_imports(t.body, 1, {})

\* A variant of _find_import_position that does not skip the module docstring.
find_import_position_from_top(t) ==
    LET others == {i \in 1..Len(t.body) : t.body[i].k \notin {"Import", "ImportFrom"}}
    IN  IF others = {} THEN Len(t.body)
        ELSE (CHOOSE i \in others : \A j \in others : i <= j) - 1

\* ImportFixer._find_import_position: the number of statements the new import
\* is to stand after.
_find_import_position(t) ==
    LET insert_pos ==
            IF t.body # <<>> /\ t.body[1].k = "Expr" /\ t.body[1].value.k = "Constant"
            THEN 1 ELSE 0
        others == {i \in (insert_pos + 1)..Len(t.body) : t.body[i].k \notin {"Import", "ImportFrom"}}
    IN  IF others = {} THEN Len(t.body)
        ELSE (CHOOSE i \in others : \A j \in others : i <= j) - 1

\* ImportFixer._add_import_statement
_add_import_statement(t, imports) ==
    LET typing == {i \in 1..Len(t.body) : t.body[i].k = "ImportFrom" /\ t.body[i].module = "typing"}
        extend(i) ==
            [t EXCEPT !.body[i].names =
                t.body[i].names \o SortedNames(imports \ Range(t.body[i].names))]
    IN  IF typing # {} THEN extend(CHOOSE i \in typing : \A j \in typing : i <= j)
        ELSE [t EXCEPT !.body = Insert(t.body, _find_import_position(t),
                                       ImportFrom("typing", SortedNames(imports)))]

\* ImportFixer.add_missing_imports: [tree, count].
add_missing_imports(t) ==
    LET add(missing) ==
            IF missing = {} THEN [tree |-> t, count |-> 0]
            ELSE [tree |-> _add_import_statement(t, missing), count |-> Cardinality(missing)]
    IN  add(_find_needed_imports(t) \ _find_existing_imports(t))

\* ImportFixer.merge_typing_imports: the tree with the names of all its
\* typing imports in one new statement.
merge_typing_imports(t) ==
    LET typing(n) == n.k = "ImportFrom" /\ n.module = "typing"
        position(other_nodes) ==
            IF other_nodes # <<>> /\ other_nodes[1].k = "Expr"
                   /\ other_nodes[1].value.k = "Constant"
            THEN 1 ELSE 0
        merged(all_typing_names, other_nodes) ==
            IF all_typing_names # {}
            THEN Insert(other_nodes, position(other_nodes),
                        ImportFrom("typing", SortedNames(all_typing_names)))
            ELSE other_nodes
    IN  [t EXCEPT !.body =
            merged(UNION {Range(t.body[i].names) \ {"*"} : i \in {m \in DOMAIN t.body : typing(t.body[m])}},
                   SelectSeq(t.body, LAMBDA n : ~typing(n)))]

\* ast.unparse(tree) raises AttributeError on a statement that carries a type
\* comment slot (an assignment, a for loop, a function definition) and has no
\* lineno: a statement a fixer made and put in the tree without a location.
unparse_raises(t) ==
    LET unlocated(nodes) ==
            \E i \in DOMAIN nodes :
                nodes[i].k \in {"Assign", "For", "FunctionDef"} /\ nodes[i].ln = 0
    IN  unlocated(walk_nodes(t))

(***************************************************************************)
(* Inputs                                                                  *)
(***************************************************************************)

\* The most members of a set given to _unify_types.
MaxMembers == 3
\* The most statements of a module given to the inferrer.
MaxStmts == 2
\* The most calls made on one TypeInferrer.
MaxCalls == 2

INT   == Constant("int")
FLOAT == Constant("float")
STR   == Constant("str")

\* Type strings that occur as members of the sets _unify_types is given.
TypePool ==
    {Str("Any"), Str("int"), Str("float"), Str("str"), Str("bool"), Sub("List", Str("int"))}

SetsUpTo(S, n) == {X \in SUBSET S : Cardinality(X) <= n}

SeqsUpTo(S, n) == UNION {[1..m -> S] : m \in 1..n}

\* Statements of the modules the inferrer is tried on.
AssignPool ==
    { Assign(<<Name("x")>>, INT),                                \* x = 1
      Assign(<<Name("x")>>, FLOAT),                              \* x = 2.5
      Assign(<<Name("x")>>, Call(Name("foo"), <<>>)),            \* x = foo()
      Assign(<<Name("x")>>, Name("y")),                          \* x = y
      Assign(<<Name("y")>>, Name("x")),                          \* y = x
      Assign(<<Name("x")>>, BinOp(Name("x"), "Add", INT)),       \* x = x + 1
      Assign(<<Name("y")>>, STR),                                \* y = 's'
      Assign(<<Name("x")>>, List(<<INT, FLOAT>>)),               \* x = [1, 2.5]
      Assign(<<Name("y")>>, Set(<<INT, STR>>)),                  \* y = {1, 's'}
      Assign(<<Name("y")>>, Dict(<<STR, STR>>, <<INT, FLOAT>>)) }  \* y = {'a': 1, 'b': 2.5}

FuncPool ==
    { \* def f(c):  if c: return 5;  return 2.5
      FunctionDef("f", <<arg("c", NoNode)>>,
                  <<If(Name("c"), <<Return(INT)>>, <<>>), Return(FLOAT)>>, NoNode),
      \* def g(x, c):  if c: x.lower();  return x[0]
      FunctionDef("g", <<arg("x", NoNode), arg("c", NoNode)>>,
                  <<If(Name("c"), <<Expr(Call(Attribute(Name("x"), "lower"), <<>>))>>, <<>>),
                    Return(Subscript(Name("x"), INT))>>, NoNode),
      \* def h(x):  return x
      FunctionDef("h", <<arg("x", NoNode)>>, <<Return(Name("x"))>>, NoNode),
      \* def k(c):  if c: return 's';  return
      FunctionDef("k", <<arg("c", NoNode)>>,
                  <<If(Name("c"), <<Return(STR)>>, <<>>), Return(NoNode)>>, NoNode) }

StmtPool == AssignPool \cup FuncPool

ExprKinds == {"Constant", "Name", "Call", "Attribute", "List", "Set", "Tuple", "Dict",
              "BinOp", "Compare", "BoolOp", "IfExp", "Subscript"}

NoRun == [pc |-> "idle"]

\* No fixer has been called on the tree; no message has been categorized.
NoFix == [op |-> "none", calls |-> 0]
NoParse == [stage |-> 0]

(***************************************************************************)
(* The unifier on its own: _unify_types applied to S, to its own result,   *)
(* to its result with further members T, and to all members at once.       *)
(***************************************************************************)

InitUnify ==
    /\ \E S \in SetsUpTo(TypePool, MaxMembers), T \in SetsUpTo(TypePool, MaxMembers) :
          uni = [S |-> S, T |-> T, stage |-> 0, r1 |-> NoType, r1again |-> NoType,
                 r2 |-> NoType, r3 |-> NoType]
    /\ inf = [op |-> "none"]
    /\ tree = NoNode
    /\ type_cache = <<>>
    /\ strict = FALSE
    /\ run = NoRun
    /\ fx = NoFix
    /\ par = NoParse

UnifyS ==
    /\ uni.stage = 0
    /\ uni' = [uni EXCEPT !.stage = 1, !.r1 = _unify_types(uni.S)]
    /\ UNCHANGED <<inf, tree, type_cache, strict, run, fx, par>>

UnifyResult ==
    /\ uni.stage = 1
    /\ uni' = [uni EXCEPT !.stage = 2, !.r1again = _unify_types({uni.r1})]
    /\ UNCHANGED <<inf, tree, type_cache, strict, run, fx, par>>

UnifyResultWith ==
    /\ uni.stage = 2
    /\ uni' = [uni EXCEPT !.stage = 3, !.r2 = _unify_types({uni.r1} \cup uni.T)]
    /\ UNCHANGED <<inf, tree, type_cache, strict, run, fx, par>>

UnifyAll ==
    /\ uni.stage = 3
    /\ uni' = [uni EXCEPT !.stage = 4, !.r3 = _unify_types(uni.S \cup uni.T)]
    /\ UNCHANGED <<inf, tree, type_cache, strict, run, fx, par>>

NextUnify == UnifyS \/ UnifyResult \/ UnifyResultWith \/ UnifyAll

SpecUnify == InitUnify /\ [][NextUnify]_vars

ANY == Str("Any")

\* The sequences that list the members of S once each, in sorted order.
SortedListings(S) ==
    {q \in [1..Cardinality(S) -> S] :
        \A i, j \in 1..Cardinality(S) : i < j => StrLess(q[i], q[j])}

\* C5: _unify_types(S) follows the stated rule: with the members equal to Any
\* dropped, nothing left gives Any, one member left gives that member, a
\* remainder within {int, float} gives float if float is there and int if not,
\* and any other remainder gives Union[...] of exactly the remaining members in
\* sorted order; so {int, float} gives float, {str} str, {Any} Any, {} Any.
C5_UnifyFollowsRule ==
    uni.stage >= 1 =>
        LET rest == uni.S \ {ANY}
        IN  /\ rest = {} => uni.r1 = ANY
            /\ Cardinality(rest) = 1 => uni.r1 \in rest
            /\ Cardinality(rest) > 1 /\ rest \subseteq {Str("int"), Str("float")} =>
                    uni.r1 = (IF Str("float") \in rest THEN Str("float") ELSE Str("int"))
            /\ Cardinality(rest) > 1 /\ ~(rest \subseteq {Str("int"), Str("float")}) =>
                    \E q \in SortedListings(rest) :
                        uni.r1 = <<"Union", "[">> \o join(<<", ">>, q) \o <<"]">>
            /\ uni.S = {Str("int"), Str("float")} => uni.r1 = Str("float")
            /\ uni.S = {Str("str")} => uni.r1 = Str("str")
            /\ uni.S = {ANY} => uni.r1 = ANY
            /\ uni.S = {} => uni.r1 = ANY

\* Any dropped from {Any, str, int} and the two others listed in sorted order.
C5_Witness ==
    /\ uni.stage >= 1
    /\ uni.S = {ANY, Str("str"), Str("int")}
    /\ uni.r1 = <<"Union", "[", "int", ", ", "str", "]">>

\* C6: _unify_types is idempotent and associative: unifying its own result
\* gives that result again, and unifying the result for S together with the
\* members of T gives the same expression as unifying S and T at once.
C6_UnifyIdempotentAssociative ==
    uni.stage = 4 => uni.r1again = uni.r1 /\ uni.r2 = uni.r3

(***************************************************************************)
(* One TypeInferrer, called up to MaxCalls times on the nodes of one tree. *)
(***************************************************************************)

NoCall == [op |-> "none", calls |-> 0, name |-> "", node |-> NoNode, before |-> <<>>,
           ty |-> NoType, err |-> FALSE]

InitInfer ==
    /\ \E body \in SeqsUpTo(StmtPool, MaxStmts) : tree = parse(Module(body))
    /\ strict \in BOOLEAN
    /\ type_cache = <<>>
    /\ inf = NoCall
    /\ uni = [stage |-> 0]
    /\ run = NoRun
    /\ fx = NoFix
    /\ par = NoParse

\* The call returns r.ty, or raises (r.err); the cache is left as the call made
\* it. inf keeps the call, the cache it started from, and its outcome.
Called(op, name, node, r) ==
    /\ inf' = [op |-> op, calls |-> inf.calls + 1, name |-> name, node |-> node,
               before |-> type_cache, ty |-> r.ty, err |-> r.err]
    /\ type_cache' = r.cache
    /\ UNCHANGED <<uni, tree, strict, run, fx, par>>

CallInferExpr ==
    /\ inf.calls < MaxCalls
    /\ \E p \in Range(walk(tree)) :
          /\ NodeAt(tree, p).k \in ExprKinds
          /\ Called("infer_expr_type", "", NodeAt(tree, p),
                    _infer_expr_type(NodeAt(tree, p), tree, type_cache, strict, {}))

CallInferReturn ==
    /\ inf.calls < MaxCalls
    /\ \E i \in 1..Len(tree.body) :
          /\ tree.body[i].k = "FunctionDef"
          /\ Called("infer_return_type", "", tree.body[i],
                    infer_return_type(tree.body[i], type_cache, strict))

CallInferParam ==
    /\ inf.calls < MaxCalls
    /\ \E i \in 1..Len(tree.body) :
          /\ tree.body[i].k = "FunctionDef"
          /\ \E j \in 1..Len(tree.body[i].args.args) :
                LET name == tree.body[i].args.args[j].arg
                IN  Called("infer_param_type", name, tree.body[i],
                           infer_param_type(name, tree.body[i], type_cache, strict))

CallInferVariable ==
    /\ inf.calls < MaxCalls
    /\ \E i \in 1..Len(tree.body) :
          /\ tree.body[i].k = "Assign"
          /\ Called("infer_variable_type", tree.body[i].targets[1].id, tree.body[i],
                    infer_variable_type(tree.body[i].targets[1].id, tree.body[i], tree,
                                        type_cache, strict))

NextInfer == CallInferExpr \/ CallInferReturn \/ CallInferParam \/ CallInferVariable

SpecInfer == InitInfer /\ [][NextInfer]_vars

\* The types the expressions infer to from the cache the call started with,
\* those of no type left out.
InferredTypes(exprs, context) ==
    TypesOf(infer_each(exprs, context, inf.before, strict, {}, <<>>).tys)

\* C7: infer_return_type gives None for a function with no return statement or
\* with value-less returns only; otherwise it gives the unification of the
\* inferred types of all returned expressions, inside Optional[...] exactly
\* when a value-less return occurs as well.
C7_ReturnTypeRule ==
    inf.op = "infer_return_type" =>
        LET returns == SelectSeq(walk_nodes(inf.node), LAMBDA n : n.k = "Return")
            valued  == SelectSeq(returns, LAMBDA n : n.value # NoNode)
            unified == _unify_types(InferredTypes(ValuesOf(valued), inf.node))
        IN  /\ ~inf.err
            /\ inf.ty = IF valued = <<>> THEN Str("None")
                        ELSE IF Len(valued) < Len(returns)
                             THEN <<"Optional", "[">> \o unified \o <<"]">>
                        ELSE unified

\* The nodes of a tree in the order of the source text: a node before its
\* children, the children from left to right.
RECURSIVE Preorder(_), PreorderAll(_, _)
Preorder(n) == <<n>> \o PreorderAll(n, ChildSteps(n))
PreorderAll(n, steps) ==
    IF steps = <<>> THEN <<>>
    ELSE Preorder(Get(n, Head(steps))) \o PreorderAll(n, Tail(steps))

\* C8: infer_param_type gives the type implied by the first usage of the
\* parameter in the source order of the function body, whatever the nesting
\* depth of the usages.
C8_FirstUsageInSourceOrder ==
    inf.op = "infer_param_type" =>
        LET usage == analyze_nodes(Preorder(inf.node), inf.name, inf.node, inf.before,
                                   strict, <<>>)
        IN  /\ ~inf.err
            /\ inf.ty = IF usage.patterns = <<>> THEN DefaultType(strict)
                        ELSE _infer_from_patterns(usage.patterns, strict)

\* C9: the type inferred for a list, set or dict literal is the container
\* parametrized by the unification of its elements' inferred types (of the key
\* types and of the value types for a dict), Any standing only in a slot with
\* no element or no resolvable element: [1, 2.5] is List[float].
C9_ContainerOfUnifiedElements ==
    inf.op = "infer_expr_type" /\ inf.node.k \in {"List", "Set", "Dict"} =>
        /\ ~inf.err
        /\ inf.ty = IF inf.node.k = "Dict"
                    THEN <<"Dict", "[">> \o _unify_types(InferredTypes(inf.node.keys, tree))
                            \o <<", ">> \o _unify_types(InferredTypes(inf.node.values, tree))
                            \o <<"]">>
                    ELSE <<inf.node.k, "[">> \o _unify_types(InferredTypes(inf.node.elts, tree))
                            \o <<"]">>

\* C10: infer_variable_type(name, assignment, tree) gives the type the
\* assignment's right-hand side infers to if that is a type other than Any;
\* otherwise the unification of the inferred types of every assignment to the
\* name in the tree; and with no such type, Any outside strict mode and no
\* type in strict mode.
C10_VariableTypeRule ==
    inf.op = "infer_variable_type" =>
        LET first  == _infer_expr_type(inf.node.value, tree, inf.before, strict, {})
            others == infer_each(ValuesOf(_find_assignments(inf.name, tree)), tree,
                                 first.cache, strict, {}, <<>>)
        IN  /\ ~inf.err
            /\ inf.ty = IF first.ty # NoType /\ first.ty # ANY THEN first.ty
                        ELSE IF TypesOf(others.tys) = {} THEN DefaultType(strict)
                        ELSE _unify_types(TypesOf(others.tys))

\* C25: every call of infer_expr_type, infer_return_type, infer_param_type
\* and infer_variable_type returns: none ends in the RecursionError that
\* stands for an inference without end.
C25_InferenceTerminates == inf.op # "none" => ~inf.err

\* The call inf records, made again on an inferrer with the given cache.
CallAgain(cache) ==
    CASE inf.op = "infer_expr_type" -> _infer_expr_type(inf.node, tree, cache, strict, {})
      [] inf.op = "infer_return_type" -> infer_return_type(inf.node, cache, strict)
      [] inf.op = "infer_param_type" -> infer_param_type(inf.name, inf.node, cache, strict)
      [] inf.op = "infer_variable_type" ->
            infer_variable_type(inf.name, inf.node, tree, cache, strict)

\* C26: a call that returns gives the type an inferrer with an empty cache
\* gives for the same call, and for a name that has an assignment in the
\* context that is the type of the first such assignment's value.
C26_CacheNeverChangesAnswer ==
    (inf.op # "none" /\ ~inf.err) =>
        /\ inf.ty = CallAgain(<<>>).ty
        /\ (/\ inf.op = "infer_expr_type" /\ inf.node.k = "Name"
            /\ _find_assignments(inf.node.id, tree) # <<>>) =>
                inf.ty = _infer_expr_type(_find_assignments(inf.node.id, tree)[1].value,
                                          tree, <<>>, strict, {}).ty

(***************************************************************************)
(* TypeGuardianRunner.auto_fix_all (runner.py), called up to MaxRuns times *)
(* with the same diagnostics on the files as the call before left them.    *)
(***************************************************************************)

\* The most diagnostics given to auto_fix_all.
MaxErrors == 2
\* The last line a diagnostic points at.
MaxLine == 4
\* The most calls of auto_fix_all on the same files.
MaxRuns == 2

Files == {"a.py", "b.py"}

\* def f(x: Tuple): pass, after the import of Tuple and TypeVar and T = TypeVar('T')
TextTuple ==
    Module(<<ImportFrom("typing", <<"Tuple", "TypeVar">>),
             Assign(<<Name("T")>>, Call(Name("TypeVar"), <<Constant("str")>>)),
             FunctionDef("f", <<arg("x", Name("Tuple"))>>, <<Pass>>, NoNode)>>)

\* def f(x: List): pass
TextList == Module(<<FunctionDef("f", <<arg("x", Name("List"))>>, <<Pass>>, NoNode)>>)

\* def g(x, c):
\*     if c:
\*         x.lower()
\*     return x[0]
TextUsages ==
    Module(<<FunctionDef("g", <<arg("x", NoNode), arg("c", NoNode)>>,
                <<If(Name("c"), <<Expr(Call(Attribute(Name("x"), "lower"), <<>>))>>, <<>>),
                  Return(Subscript(Name("x"), INT))>>, NoNode)>>)

\* x = 1
\* items = []
\* items.append(User())
TextItems ==
    Module(<<Assign(<<Name("x")>>, INT),
             Assign(<<Name("items")>>, List(<<>>)),
             Expr(Call(Attribute(Name("items"), "append"), <<Call(Name("User"), <<>>)>>))>>)

\* x = x + 1
TextSelf == Module(<<Assign(<<Name("x")>>, BinOp(Name("x"), "Add", INT))>>)

\* email = (
\*     user.email)
TextWrapped == Module(<<Wrapped(Assign(<<Name("email")>>, Attribute(Name("user"), "email")))>>)

\* x = 1
TextOther == Module(<<Assign(<<Name("x")>>, INT)>>)

\* What a.py may hold when auto_fix_all is first called.
Texts == {TextTuple, TextList, TextUsages, TextItems, TextSelf, TextWrapped,
          SyntaxErrorText, Missing}

\* A parsed diagnostic: return_type says whether its message contains
\* 'return type', name is context['name'] ("" when the context has none).
Error(file, line, category, return_type, name) ==
    [file |-> file, line |-> line, category |-> category, return_type |-> return_type,
     name |-> name]

ErrorPool ==
    {Error("a.py", line, "missing_type_hint", rt, "") : line \in 1..MaxLine, rt \in BOOLEAN}
        \cup {Error("a.py", line, c, FALSE, "") :
                line \in 1..MaxLine, c \in {"optional_none", "generic_type", "type_mismatch"}}
        \cup {Error("a.py", line, "collection_type", FALSE, name) :
                line \in 1..MaxLine, name \in {"", "items"}}
        \cup {Error("b.py", 1, "missing_type_hint", FALSE, "")}

NoResults ==
    [hints_added |-> 0, optional_fixed |-> 0, imports_added |-> 0, generics_fixed |-> 0,
     manual_review |-> <<>>]

\* errors_by_file: the files in the order of their first diagnostic, and the
\* diagnostics of one file in their order.
RECURSIVE FilesOf(_, _)
FilesOf(errors, seen) ==
    IF errors = <<>> THEN seen
    ELSE IF Head(errors).file \in Range(seen) THEN FilesOf(Tail(errors), seen)
    ELSE FilesOf(Tail(errors), Append(seen, Head(errors).file))

ErrorsOf(errors, file) == SelectSeq(errors, LAMBDA e : e.file = file)

Init ==
    /\ \E text \in Texts, errors \in SeqsUpTo(ErrorPool, MaxErrors), dry_run \in BOOLEAN :
          run = [pc |-> "idle", calls |-> 0, errors |-> errors, dry_run |-> dry_run,
                 files |-> [f \in Files |-> IF f = "a.py" THEN text ELSE TextOther],
                 before |-> [f \in Files |-> IF f = "a.py" THEN text ELSE TextOther],
                 order |-> <<>>, fi |-> 0, ei |-> 0, modified |-> FALSE,
                 results |-> NoResults, log |-> <<>>, backups |-> 0,
                 first |-> [results |-> NoResults, files |-> <<>>], trace |-> <<>>]
    /\ strict \in BOOLEAN
    /\ tree = NoNode
    /\ type_cache = <<>>
    /\ inf = NoCall
    /\ uni = [stage |-> 0]
    /\ fx = NoFix
    /\ par = NoParse

\* auto_fix_all is called (lines 60-106): a backup unless dry_run, the
\* diagnostics grouped by file, new fixers (a new TypeInferrer with an empty
\* cache).  run.first keeps what the call before returned and left on disk.
Begin ==
    /\ run.pc = "idle" \/ (run.pc = "done" /\ run.calls < MaxRuns)
    /\ run' = [run EXCEPT !.pc = "files", !.calls = @ + 1,
                          !.order = FilesOf(run.errors, <<>>), !.fi = 1, !.ei = 0,
                          !.modified = FALSE, !.results = NoResults, !.log = <<>>,
                          !.backups = IF run.dry_run THEN @ ELSE @ + 1,
                          !.first = IF run.pc = "done"
                                    THEN [results |-> run.results, files |-> run.files]
                                    ELSE @,
                          !.trace = <<>>]
    /\ type_cache' = <<>>
    /\ tree' = NoNode
    /\ UNCHANGED <<uni, inf, strict, fx, par>>

\* The file of the loop does not exist (lines 111-112): on to the next file.
FileMissing ==
    /\ run.pc = "files" /\ run.fi <= Len(run.order)
    /\ run.files[run.order[run.fi]] = Missing
    /\ run' = [run EXCEPT !.fi = @ + 1]
    /\ UNCHANGED <<uni, inf, tree, type_cache, strict, fx, par>>

\* ast.parse raises SyntaxError (lines 118-125): one manual_review entry for
\* the file, and on to the next file.
FileSyntaxError ==
    /\ run.pc = "files" /\ run.fi <= Len(run.order)
    /\ run.files[run.order[run.fi]] = SyntaxErrorText
    /\ run' = [run EXCEPT !.fi = @ + 1,
                          !.results.manual_review =
                              Append(@, [file |-> run.order[run.fi],
                                         reason |-> "Syntax error - cannot parse"])]
    /\ UNCHANGED <<uni, inf, tree, type_cache, strict, fx, par>>

\* One step of auto_fix_all on a file, kept in run.trace in the order the
\* steps are taken: the file is parsed, a fixer is called on diagnostic at
\* of the file and reports fixed, a diagnostic goes to manual_review,
\* add_missing_imports is called, ast.unparse is called.
Step(op, file, at, fixed) == [op |-> op, file |-> file, at |-> at, fixed |-> fixed]

\* The file is read and parsed (lines 115-127).
FileParsed ==
    /\ run.pc = "files" /\ run.fi <= Len(run.order)
    /\ run.files[run.order[run.fi]] \notin {Missing, SyntaxErrorText}
    /\ tree' = parse(run.files[run.order[run.fi]])
    /\ run' = [run EXCEPT !.pc = "fixing", !.ei = 1, !.modified = FALSE,
                          !.trace = Append(@, Step("parse", run.order[run.fi], 0, FALSE))]
    /\ UNCHANGED <<uni, inf, type_cache, strict, fx, par>>

\* The diagnostics of the file in hand, and the one the loop is at.
FileErrors == ErrorsOf(run.errors, run.order[run.fi])
AtError(category) ==
    /\ run.pc = "fixing"
    /\ run.ei <= Len(FileErrors)
    /\ FileErrors[run.ei].category = category

\* tree, fixed = fixer.fix(error, tree); the counter and modified when fixed.
\* An exception of the fixer leaves auto_fix_all: nothing is returned.
Apply(counter, fix) ==
    IF fix.err
    THEN /\ run' = [run EXCEPT !.pc = "raised",
                               !.trace = Append(@, Step("fix", run.order[run.fi], run.ei, FALSE))]
         /\ type_cache' = fix.cache
         /\ UNCHANGED <<uni, inf, tree, strict, fx, par>>
    ELSE /\ run' = [run EXCEPT !.ei = @ + 1,
                               !.modified = @ \/ fix.fixed,
                               !.results[counter] = IF fix.fixed THEN @ + 1 ELSE @,
                               !.log = Append(@, [error |-> FileErrors[run.ei],
                                                  fixer |-> TRUE, fixed |-> fix.fixed]),
                               !.trace = Append(@, Step("fix", run.order[run.fi], run.ei,
                                                        fix.fixed))]
         /\ tree' = fix.tree
         /\ type_cache' = fix.cache
         /\ UNCHANGED <<uni, inf, strict, fx, par>>

\* lines 133-138
FixMissingHint ==
    /\ AtError("missing_type_hint")
    /\ Apply("hints_added", MissingHintsFixer_fix(FileErrors[run.ei], tree, type_cache, strict))

\* lines 140-145
FixOptional ==
    /\ AtError("optional_none")
    /\ Apply("optional_fixed", OptionalFixer_fix(FileErrors[run.ei], tree, type_cache))

\* lines 147-152
FixGeneric ==
    /\ AtError("generic_type")
    /\ Apply("generics_fixed", GenericFixer_fix(FileErrors[run.ei], tree, type_cache))

\* lines 154-159
FixCollection ==
    /\ AtError("collection_type")
    /\ Apply("hints_added", CollectionFixer_fix(FileErrors[run.ei], tree, type_cache))

\* lines 161-162: a diagnostic of any other category goes to manual_review.
ManualReview ==
    /\ run.pc = "fixing"
    /\ run.ei <= Len(FileErrors)
    /\ FileErrors[run.ei].category \notin
          {"missing_type_hint", "optional_none", "generic_type", "collection_type"}
    /\ run' = [run EXCEPT !.ei = @ + 1,
                          !.results.manual_review = Append(@, FileErrors[run.ei]),
                          !.log = Append(@, [error |-> FileErrors[run.ei],
                                             fixer |-> FALSE, fixed |-> FALSE]),
                          !.trace = Append(@, Step("review", run.order[run.fi], run.ei, FALSE))]
    /\ UNCHANGED <<uni, inf, tree, type_cache, strict, fx, par>>

\* CloseFile as it would be if add_missing_imports were called on every
\* parsed file, with or without a fix applied.
close_file_always_reconciling ==
    /\ run.pc = "fixing"
    /\ run.ei > Len(FileErrors)
    /\ LET steps == <<Step("imports", run.order[run.fi], 0, FALSE)>>
                    \o (IF run.modified /\ ~run.dry_run
                        THEN <<Step("unparse", run.order[run.fi], 0, FALSE)>> ELSE <<>>)
           write(imports) ==
               IF run.modified /\ ~run.dry_run /\ unparse_raises(imports.tree)
               THEN /\ run' = [run EXCEPT !.pc = "raised",
                                          !.results.imports_added = @ + imports.count,
                                          !.trace = @ \o steps]
                    /\ tree' = imports.tree
               ELSE /\ run' = [run EXCEPT !.pc = "files", !.fi = @ + 1,
                                          !.results.imports_added = @ + imports.count,
                                          !.files[run.order[run.fi]] =
                                              IF run.modified /\ ~run.dry_run
                                              THEN unparse(imports.tree) ELSE @,
                                          !.trace = @ \o steps]
                    /\ tree' = imports.tree
       IN  write(add_missing_imports(tree))
    /\ UNCHANGED <<uni, inf, type_cache, strict, fx, par>>

\* After the last diagnostic of the file (lines 164-175): the imports are
\* reconciled if a fix was applied, and the tree is unparsed and written
\* unless dry_run.  An exception of ast.unparse leaves auto_fix_all.
CloseFile ==
    /\ run.pc = "fixing"
    /\ run.ei > Len(FileErrors)
    /\ LET steps == (IF run.modified
                     THEN <<Step("imports", run.order[run.fi], 0, FALSE)>> ELSE <<>>)
                    \o (IF run.modified /\ ~run.dry_run
                        THEN <<Step("unparse", run.order[run.fi], 0, FALSE)>> ELSE <<>>)
           write(imports) ==
               IF run.modified /\ ~run.dry_run /\ unparse_raises(imports.tree)
               THEN /\ run' = [run EXCEPT !.pc = "raised",
                                          !.results.imports_added = @ + imports.count,
                                          !.trace = @ \o steps]
                    /\ tree' = imports.tree
               ELSE /\ run' = [run EXCEPT !.pc = "files", !.fi = @ + 1,
                                          !.results.imports_added = @ + imports.count,
                                          !.files[run.order[run.fi]] =
                                              IF run.modified /\ ~run.dry_run
                                              THEN unparse(imports.tree) ELSE @,
                                          !.trace = @ \o steps]
                    /\ tree' = imports.tree
       IN  write(IF run.modified THEN add_missing_imports(tree)
                 ELSE [tree |-> tree, count |-> 0])
    /\ UNCHANGED <<uni, inf, type_cache, strict, fx, par>>

\* After the last file (lines 177-179): the results are returned.
ReturnResults ==
    /\ run.pc = "files" /\ run.fi > Len(run.order)
    /\ run' = [run EXCEPT !.pc = "done"]
    /\ UNCHANGED <<uni, inf, tree, type_cache, strict, fx, par>>

Next ==
    \/ Begin
    \/ FileMissing
    \/ FileSyntaxError
    \/ FileParsed
    \/ FixMissingHint
    \/ FixOptional
    \/ FixGeneric
    \/ FixCollection
    \/ ManualReview
    \/ CloseFile
    \/ ReturnResults

Spec == Init /\ [][Next]_vars

(***************************************************************************)
(* Properties of auto_fix_all                                              *)
(***************************************************************************)

\* C1: when auto_fix_all has rewritten the files and is called again with the
\* same diagnostics, every counter of the second call is 0 and every file
\* holds the text the first call left.
C1_SecondRunMakesNoEdits ==
    (run.pc = "done" /\ run.calls = 2 /\ ~run.dry_run) =>
        /\ run.results.hints_added = 0
        /\ run.results.optional_fixed = 0
        /\ run.results.imports_added = 0
        /\ run.results.generics_fixed = 0
        /\ run.files = run.first.files

\* The annotations of a tree that mention Any, each with the parameter,
\* function or variable it annotates.
MentionsAny(annotation) == annotation # NoNode /\ "Any" \in Range(unparse_expr(annotation))
AnyAnnotationsOf(nodes) ==
    {<<"arg", nodes[i].arg, unparse_expr(nodes[i].annotation)>> :
        i \in {m \in DOMAIN nodes : nodes[m].k = "arg" /\ MentionsAny(nodes[m].annotation)}}
    \cup {<<"returns", nodes[i].name, unparse_expr(nodes[i].returns)>> :
        i \in {m \in DOMAIN nodes : nodes[m].k = "FunctionDef" /\ MentionsAny(nodes[m].returns)}}
    \cup {<<"variable", unparse_expr(nodes[i].target), unparse_expr(nodes[i].annotation)>> :
        i \in {m \in DOMAIN nodes : nodes[m].k = "AnnAssign" /\ MentionsAny(nodes[m].annotation)}}
AnyAnnotations(t) == IF t.k # "Module" THEN {} ELSE AnyAnnotationsOf(walk_nodes(t))

\* C2: in strict mode the annotations that mention Any are the same after
\* the fixers have worked on a tree, and in the files once auto_fix_all has
\* returned, as they were in the file before.
C2_StrictWritesNoAny ==
    strict =>
        /\ run.pc = "fixing" =>
              AnyAnnotations(tree) = AnyAnnotations(parse(run.files[run.order[run.fi]]))
        /\ run.pc = "done" =>
              \A f \in Files :
                  run.files[f] \in {Missing, SyntaxErrorText}
                      \/ AnyAnnotations(parse(run.files[f])) = AnyAnnotations(parse(run.before[f]))

\* C3: once auto_fix_all has returned, every diagnostic whose fixer reported
\* that it applied nothing is in manual_review.
C3_UnappliedGoesToManualReview ==
    run.pc = "done" =>
        \A i \in DOMAIN run.log :
            (run.log[i].fixer /\ ~run.log[i].fixed) =>
                run.log[i].error \in Range(run.results.manual_review)

\* The files of the batch that come after position i and can be parsed.
LaterParsed(i) ==
    {run.order[j] : j \in {n \in DOMAIN run.order : n > i /\ run.files[run.order[n]].k = "Module"}}
Logged == {run.log[i].error : i \in DOMAIN run.log}

\* C4: auto_fix_all never raises, and when it has returned, a file that
\* cannot be parsed has exactly one manual_review entry, which names it with
\* a reason, no fixer has run on its diagnostics, its text is as it was, and
\* every diagnostic of every later parsable file has been handled.
C4_NeverFailsOnOneFile ==
    /\ run.pc # "raised"
    /\ run.pc = "done" =>
          \A i \in DOMAIN run.order :
              run.files[run.order[i]] = SyntaxErrorText =>
                  /\ Cardinality({n \in DOMAIN run.results.manual_review :
                                     run.results.manual_review[n].file = run.order[i]}) = 1
                  /\ \E n \in DOMAIN run.results.manual_review :
                        run.results.manual_review[n] =
                            [file |-> run.order[i], reason |-> "Syntax error - cannot parse"]
                  /\ \A e \in Logged : e.file # run.order[i]
                  /\ run.before[run.order[i]] = SyntaxErrorText
                  /\ \A f \in LaterParsed(i) : Range(ErrorsOf(run.errors, f)) \subseteq Logged

\* The log entries of the call in hand whose fixer reported a fix for a
\* diagnostic of one of the given categories.
FixedIn(categories) ==
    {i \in DOMAIN run.log : run.log[i].fixed /\ run.log[i].error.category \in categories}

\* What the files held when the call in hand began.
AtBegin == IF run.calls = 2 THEN run.first.files ELSE run.before

\* C22: with dry_run no file ever differs from what it held before
\* auto_fix_all was called, the counters returned are those of the fixes the
\* fixers reported on the trees, and a tree those fixes were counted on is
\* one the call without dry_run writes; without dry_run a file differs from
\* what it held when the call began only if a fixer reported a fix for one
\* of its diagnostics in that call.
C22_DryRunCountsWhatWouldBeApplied ==
    /\ run.dry_run =>
          /\ run.files = run.before
          /\ run.pc = "done" =>
                /\ run.results.hints_added =
                      Cardinality(FixedIn({"missing_type_hint", "collection_type"}))
                /\ run.results.optional_fixed = Cardinality(FixedIn({"optional_none"}))
                /\ run.results.generics_fixed = Cardinality(FixedIn({"generic_type"}))
          /\ (run.pc \in {"files", "done"} /\ run.modified) => ~unparse_raises(tree)
    /\ (~run.dry_run /\ run.calls > 0) =>
          \A f \in Files :
              run.files[f] # AtBegin[f] =>
                  \E i \in DOMAIN run.log : run.log[i].fixed /\ run.log[i].error.file = f

\* The places of run.trace where a step of the given kinds is taken on a file.
Positions(ops, f) ==
    {i \in DOMAIN run.trace : run.trace[i].op \in ops /\ run.trace[i].file = f}

\* The diagnostics of a file handled so far, in the order they were handled.
Handled(f) == SelectSeq(run.trace, LAMBDA s : s.file = f /\ s.op \in {"fix", "review"})

\* The file was parsed and the loop has left it.
Closed(f) ==
    /\ Positions({"parse"}, f) # {}
    /\ ~(run.pc \in {"fixing", "raised"} /\ run.order[run.fi] = f)

\* The steps of one file are not mixed with those of another.
OneFileAtATime ==
    \A i, k \in DOMAIN run.trace :
        (i < k /\ run.trace[i].file = run.trace[k].file) =>
            \A j \in i..k : run.trace[j].file = run.trace[i].file

\* The n-th diagnostic handled for a file is the n-th the caller gave for it.
InInputOrder == \A f \in Files : \A n \in DOMAIN Handled(f) : Handled(f)[n].at = n

\* add_missing_imports comes after every fixer call and every manual_review
\* entry of its file and before ast.unparse, which never comes without it.
ReconcilerLast ==
    \A f \in Files :
        /\ \A i \in Positions({"imports"}, f) :
              /\ \A j \in Positions({"fix", "review"}, f) : j < i
              /\ \A j \in Positions({"unparse"}, f) : i < j
        /\ Positions({"unparse"}, f) # {} => Positions({"imports"}, f) # {}

\* C23: the steps of one file are contiguous, its diagnostics are handled in
\* the order they were given, add_missing_imports comes after the last fixer
\* call and before ast.unparse, and it has run exactly once on every parsed
\* file the loop has left.
C23_ReconcilerOncePerFile ==
    /\ OneFileAtATime
    /\ InInputOrder
    /\ ReconcilerLast
    /\ \A f \in Files : Closed(f) => Cardinality(Positions({"imports"}, f)) = 1

\* C23 with the count of add_missing_imports as the code has it: never more
\* than once on a file, only when every diagnostic of the file has been
\* handled and a fixer reported a fix, and on a parsed file the loop has
\* left exactly when a fixer reported a fix for it.
C23_ReconcilerOncePerFixedFile ==
    /\ OneFileAtATime
    /\ InInputOrder
    /\ ReconcilerLast
    /\ \A f \in Files :
          LET fixed == \E i \in Positions({"fix"}, f) : run.trace[i].fixed
          IN  /\ Cardinality(Positions({"imports"}, f)) <= 1
              /\ Positions({"imports"}, f) # {} =>
                    fixed /\ Len(Handled(f)) = Len(ErrorsOf(run.errors, f))
              /\ Closed(f) => (Positions({"imports"}, f) # {} <=> fixed)

\* auto_fix_all has returned after two diagnostics of a.py were handled,
\* its imports reconciled and the tree unparsed.
C23_Witness ==
    /\ run.pc = "done"
    /\ Len(Handled("a.py")) = 2
    /\ Positions({"imports"}, "a.py") # {}
    /\ Positions({"unparse"}, "a.py") # {}

(***************************************************************************)
(* The fixers called one by one on the tree of one module, as a caller of  *)
(* the fixer classes does (tests/test_type_guardian.py).                   *)
(***************************************************************************)

\* The most fixer calls on one tree.
MaxFixes == 2
\* The last line a diagnostic given to a fixer points at.
MaxFixLine == 5

\* user = get_user()
\* email = user.email
TextEmail ==
    Module(<<Assign(<<Name("user")>>, Call(Name("get_user"), <<>>)),
             Assign(<<Name("email")>>, Attribute(Name("user"), "email"))>>)

\* if user is None:
\*     pass
\* else:
\*     email = (
\*         user.email)
TextElse ==
    Module(<<If(Compare(Name("user"), <<"Is">>, <<Constant("NoneType")>>), <<Pass>>,
                <<Wrapped(Assign(<<Name("email")>>, Attribute(Name("user"), "email")))>>)>>)

\* if user is not None:
\*     email = (
\*         user.email)
TextGuarded ==
    Module(<<If(Compare(Name("user"), <<"IsNot">>, <<Constant("NoneType")>>),
                <<Wrapped(Assign(<<Name("email")>>, Attribute(Name("user"), "email")))>>,
                <<>>)>>)

\* """doc"""
\* def f(x: List, y: Optional, z: int) -> Dict:
\*     pass
TextDoc ==
    Module(<<Expr(Constant("str")),
             FunctionDef("f", <<arg("x", Name("List")), arg("y", Name("Optional")),
                                arg("z", Name("int"))>>,
                         <<Pass>>, Name("Dict"))>>)

\* """doc"""
\* import os
\* def f(x: List[int]) -> Optional[int]:
\*     pass
TextScenarioE ==
    Module(<<Expr(Constant("str")), Import(<<"os">>),
             FunctionDef("f", <<arg("x", Subscript(Name("List"), Name("int")))>>, <<Pass>>,
                         Subscript(Name("Optional"), Name("int")))>>)

\* import typing
\* T = typing.TypeVar('T')
\* def f(x: Set):
\*     pass
TextQualified ==
    Module(<<Import(<<"typing">>),
             Assign(<<Name("T")>>, Call(Attribute(Name("typing"), "TypeVar"), <<Constant("str")>>)),
             FunctionDef("f", <<arg("x", Name("Set"))>>, <<Pass>>, NoNode)>>)

\* from typing import List
\* from typing import Dict, List
\* def f(x: List[int], y: Any):
\*     pass
TextTwoImports ==
    Module(<<ImportFrom("typing", <<"List">>), ImportFrom("typing", <<"Dict", "List">>),
             FunctionDef("f", <<arg("x", Subscript(Name("List"), Name("int"))),
                                arg("y", Name("Any"))>>, <<Pass>>, NoNode)>>)

\* from typing import List, List
\* def f(x: List[int], y: Any):
\*     pass
TextDuplicate ==
    Module(<<ImportFrom("typing", <<"List", "List">>),
             FunctionDef("f", <<arg("x", Subscript(Name("List"), Name("int"))),
                                arg("y", Name("Any"))>>, <<Pass>>, NoNode)>>)

\* items = []
\* items.append(1)
\* items.append('s')
\* d = {}
TextMixed ==
    Module(<<Assign(<<Name("items")>>, List(<<>>)),
             Expr(Call(Attribute(Name("items"), "append"), <<INT>>)),
             Expr(Call(Attribute(Name("items"), "append"), <<STR>>)),
             Assign(<<Name("d")>>, Dict(<<>>, <<>>))>>)

\* items = [1, 's']
\* d = {'a': 1}
\* s = {y}
\* s.add(User())
TextLiterals ==
    Module(<<Assign(<<Name("items")>>, List(<<INT, STR>>)),
             Assign(<<Name("d")>>, Dict(<<STR>>, <<INT>>)),
             Assign(<<Name("s")>>, Set(<<Name("y")>>)),
             Expr(Call(Attribute(Name("s"), "add"), <<Call(Name("User"), <<>>)>>))>>)

\* r = (
\*     user.send())
TextSend ==
    Module(<<Wrapped(Assign(<<Name("r")>>, Call(Attribute(Name("user"), "send"), <<>>)))>>)

\* def f(x: List):
\*     pass
\* from typing import List
TextLateImport ==
    Module(<<FunctionDef("f", <<arg("x", Name("List"))>>, <<Pass>>, NoNode),
             ImportFrom("typing", <<"List">>)>>)

\* a = items = []
\* items.append(1)
TextChained ==
    Module(<<Assign(<<Name("a"), Name("items")>>, List(<<>>)),
             Expr(Call(Attribute(Name("items"), "append"), <<INT>>))>>)

\* The modules the fixers are called on.
FixTexts ==
    {TextTuple, TextList, TextUsages, TextItems, TextWrapped, TextEmail, TextElse,
     TextGuarded, TextDoc, TextScenarioE, TextQualified, TextTwoImports, TextDuplicate,
     TextMixed, TextLiterals, TextSend, TextLateImport, TextChained}

\* The diagnostics given to the fixers: only line, message and context['name']
\* are read.
FixErrors ==
    {Error("a.py", line, "", rt, name) :
        line \in 1..MaxFixLine, rt \in BOOLEAN, name \in {"", "items", "d", "s"}}

InitFix ==
    /\ \E text \in FixTexts :
          /\ tree = parse(text)
          /\ fx = [NoFix EXCEPT !.op = "parsed"] @@ [start |-> parse(text)]
    /\ strict \in BOOLEAN
    /\ type_cache = <<>>
    /\ inf = NoCall
    /\ uni = [stage |-> 0]
    /\ run = NoRun
    /\ par = NoParse

\* tree, fixed = fixer.fix(error, tree): fx keeps the call, the tree it was
\* given and whether it reports a fix; a call that raises leaves the tree.
FixCalled(op, error, r) ==
    /\ fx' = [op |-> op, calls |-> fx.calls + 1, start |-> fx.start, error |-> error,
              before |-> tree, fixed |-> r.fixed, count |-> 0, err |-> r.err]
    /\ tree' = IF r.err THEN tree ELSE r.tree
    /\ type_cache' = r.cache
    /\ UNCHANGED <<uni, inf, strict, run, par>>

CallHintsFix ==
    /\ fx.op # "none" /\ fx.calls < MaxFixes
    /\ \E error \in FixErrors :
          /\ error.name = ""
          /\ FixCalled("MissingHintsFixer", error,
                       MissingHintsFixer_fix(error, tree, type_cache, strict))

CallOptionalFix ==
    /\ fx.op # "none" /\ fx.calls < MaxFixes
    /\ \E error \in FixErrors :
          /\ error.name = "" /\ ~error.return_type
          /\ FixCalled("OptionalFixer", error, OptionalFixer_fix(error, tree, type_cache))

CallGenericFix ==
    /\ fx.op # "none" /\ fx.calls < MaxFixes
    /\ \E error \in FixErrors :
          /\ error.name = "" /\ ~error.return_type
          /\ FixCalled("GenericFixer", error, GenericFixer_fix(error, tree, type_cache))

CallCollectionFix ==
    /\ fx.op # "none" /\ fx.calls < MaxFixes
    /\ \E error \in FixErrors :
          /\ ~error.return_type
          /\ FixCalled("CollectionFixer", error, CollectionFixer_fix(error, tree, type_cache))

\* tree, count = import_fixer.add_missing_imports(tree)
CallAddMissingImports ==
    /\ fx.op # "none" /\ fx.calls < MaxFixes
    /\ LET returned(r) ==
               /\ fx' = [op |-> "add_missing_imports", calls |-> fx.calls + 1,
                         start |-> fx.start, error |-> Error("", 0, "", FALSE, ""),
                         before |-> tree, fixed |-> r.count > 0, count |-> r.count,
                         err |-> FALSE]
               /\ tree' = r.tree
       IN  returned(add_missing_imports(tree))
    /\ UNCHANGED <<uni, inf, type_cache, strict, run, par>>

\* tree = import_fixer.merge_typing_imports(tree)
CallMergeTypingImports ==
    /\ fx.op # "none" /\ fx.calls < MaxFixes
    /\ fx' = [op |-> "merge_typing_imports", calls |-> fx.calls + 1, start |-> fx.start,
              error |-> Error("", 0, "", FALSE, ""), before |-> tree, fixed |-> FALSE,
              count |-> 0, err |-> FALSE]
    /\ tree' = merge_typing_imports(tree)
    /\ UNCHANGED <<uni, inf, type_cache, strict, run, par>>

NextFix ==
    \/ CallHintsFix
    \/ CallOptionalFix
    \/ CallGenericFix
    \/ CallCollectionFix
    \/ CallAddMissingImports
    \/ CallMergeTypingImports

SpecFix == InitFix /\ [][NextFix]_vars

(***************************************************************************)
(* Properties of the fixers                                                *)
(***************************************************************************)

\* receiver.attr if receiver is not None else None
Conditional(access) ==
    IfExp(Compare(Name(access.value.id), <<"IsNot">>, <<Constant("NoneType")>>),
          unparse(access), Constant("NoneType"))

\* C11: when the statement on the diagnostic's line is an assignment of an
\* attribute access on a name, at module level and so inside no None-guard,
\* OptionalFixer.fix reports a fix and the access has become the conditional
\* expression "access if name is not None else None".
C11_UnguardedAccessIsWrapped ==
    fx.op = "OptionalFixer" =>
        \A i \in DOMAIN fx.before.body :
            LET stmt == fx.before.body[i]
            IN  (/\ stmt.k = "Assign" /\ stmt.ln = fx.error.line
                 /\ stmt.value.k = "Attribute" /\ stmt.value.ln = fx.error.line
                 /\ stmt.value.value.k = "Name") =>
                    /\ fx.fixed
                    /\ unparse(tree.body[i].value) = Conditional(stmt.value)

\* The conditionals around the node at path p that test name against None and
\* hold the node on their not-None side: an if statement "name is not None"
\* with the node in its body, an if statement "name is None" with the node in
\* its else branch, a conditional expression "name is not None" with the node
\* as its first operand.
TestsNone(test, name, op) ==
    /\ test.k = "Compare" /\ IsNameOf(test.left, name)
    /\ test.ops = <<op>>
    /\ Len(test.comparators) = 1 /\ test.comparators[1] .k = "Constant"
    /\ test.comparators[1].v = "NoneType"
GuardsAround(t, p, name) ==
    {n \in 0..(Len(p) - 1) :
        LET q == NodeAt(t, SubSeq(p, 1, n))
            field == p[n + 1][1]
        IN  \/ q.k = "If" /\ field = "body" /\ TestsNone(q.test, name, "IsNot")
            \/ q.k = "If" /\ field = "orelse" /\ TestsNone(q.test, name, "Is")
            \/ q.k = "IfExp" /\ field = "body" /\ TestsNone(q.test, name, "IsNot")}

\* C12: the fixer never wraps an access that already stands inside a
\* conditional testing its receiver against None, so that no access of the
\* tree is ever inside two such conditionals.
C12_NoDoubleWrapping ==
    \A p \in Range(walk(tree)) :
        (NodeAt(tree, p).k = "Attribute" /\ NodeAt(tree, p).value.k = "Name") =>
            Cardinality(GuardsAround(tree, p, NodeAt(tree, p).value.id)) <= 1

\* The one member of a set of types, or the Union of its members in sorted
\* order.
OneOrUnion(types) ==
    IF Cardinality(types) = 1 THEN CHOOSE ty \in types : TRUE
    ELSE <<"Union", "[">> \o join(<<", ">>, sorted(types)) \o <<"]">>

\* The types of the first arguments of the append and add calls on name.
AppendedTypes(t, name) ==
    LET appended(c) ==
            /\ c.k = "Call" /\ c.func.k = "Attribute" /\ c.args # <<>>
            /\ IsNameOf(c.func.value, name) /\ c.func.attr \in {"append", "add"}
    IN  {_get_expr_type(NodeAt(t, p).args[1]) :
            p \in {q \in Range(walk(t)) : appended(NodeAt(t, q))}} \ {NoType}

\* The annotation the element rule gives the assignment of a collection
\* literal to name.
ElementRule(value, t, name) ==
    LET literal == IF value.k = "Dict" THEN {} ELSE ExprTypes(value.elts)
        single(types, default) ==
            IF Cardinality(types) = 1 THEN CHOOSE ty \in types : TRUE ELSE default
    IN  IF literal # {} THEN <<value.k, "[">> \o OneOrUnion(literal) \o <<"]">>
        ELSE IF value.k = "Dict" /\ value.keys # <<>>
        THEN <<"Dict", "[">> \o single(ExprTypes(value.keys), <<"str">>) \o <<", ">>
                 \o single(ExprTypes(value.values), <<"Any">>) \o <<"]">>
        ELSE IF AppendedTypes(t, name) # {}
        THEN <<"List", "[">> \o OneOrUnion(AppendedTypes(t, name)) \o <<"]">>
        ELSE IF value.k = "Dict" THEN <<"Dict", "[", "str", ", ", "Any", "]">>
        ELSE <<value.k, "[", "Any", "]">>

AnnotationsOf(f) ==
    LET text(a) == IF a = NoNode THEN <<>> ELSE unparse_expr(a)
    IN  [i \in 1..Len(f.args.args) |-> text(f.args.args[i].annotation)] \o <<text(f.returns)>>

\* The names type variables are declared under in a tree.
TypeVarNames(t) ==
    {NodeAt(t, p).targets[1].id : p \in {q \in Range(walk(t)) : IsTypeVarAssign(NodeAt(t, q))}}

\* C14: GenericFixer.fix on the line of a function turns each of its bare
\* List, Set, Optional and Dict annotations into List[T], Set[T], Optional[T]
\* and Dict[str, T] for the type variable T, and reports a fix exactly when an
\* annotation of the function has changed.
C14_BareGenericsParametrized ==
    fx.op = "GenericFixer" =>
        \A i \in DOMAIN fx.before.body :
            (fx.before.body[i].k = "FunctionDef" /\ fx.before.body[i].ln = fx.error.line) =>
                \E j \in DOMAIN tree.body, tv \in TypeVarNames(tree) \cup {"T"} :
                    LET old == AnnotationsOf(fx.before.body[i])
                        new == AnnotationsOf(tree.body[j])
                    IN  /\ tree.body[j].k = "FunctionDef"
                        /\ tree.body[j].name = fx.before.body[i].name
                        /\ Len(new) = Len(old)
                        /\ \A a \in DOMAIN old :
                              CASE old[a] \in {<<"List">>, <<"Set">>, <<"Optional">>} ->
                                       new[a] = old[a] \o <<"[", tv, "]">>
                                [] old[a] = <<"Dict">> ->
                                       new[a] = <<"Dict", "[", "str", ", ", tv, "]">>
                                [] old[a] \in {<<"Tuple">>, <<"Union">>} -> TRUE
                                [] OTHER -> new[a] = old[a]
                        /\ fx.fixed <=> new # old

\* The type variable declarations of a tree: the statements that bind a name
\* to a call of TypeVar, written bare or through the typing module.
Declarations(t) ==
    {p \in Range(walk(t)) :
        LET n == NodeAt(t, p)
        IN  /\ n.k \in {"Assign", "AnnAssign"}
            /\ n.value.k = "Call"
            /\ \/ n.value.func.k = "Name" /\ n.value.func.id = "TypeVar"
               \/ n.value.func.k = "Attribute" /\ n.value.func.attr = "TypeVar"}

\* C15: a generic fix adds no type variable declaration to a tree that has
\* one anywhere, and adds at most one to a tree that has none.
C15_SingleTypeVarDeclaration ==
    fx.op = "GenericFixer" =>
        IF Declarations(fx.before) # {}
        THEN Cardinality(Declarations(tree)) = Cardinality(Declarations(fx.before))
        ELSE Cardinality(Declarations(tree)) <= 1

\* A module docstring: an expression statement holding a string constant.
IsDocstring(stmt) == stmt.k = "Expr" /\ stmt.value.k = "Constant" /\ stmt.value.v = "str"

\* The statements of a body that stand before its first function definition.
RECURSIVE BeforeFirstFunction(_)
BeforeFirstFunction(body) ==
    IF body = <<>> \/ Head(body).k = "FunctionDef" THEN <<>>
    ELSE <<Head(body)>> \o BeforeFirstFunction(Tail(body))

\* C16: a type variable declaration created by a generic fix stands before
\* the first function of the module, right after the last import that
\* precedes that function, and a docstring that opened the module still opens
\* it.
C16_DeclarationAfterLeadingImports ==
    (fx.op = "GenericFixer" /\ Len(tree.body) = Len(fx.before.body) + 1) =>
        \E j \in DOMAIN tree.body :
            LET head == BeforeFirstFunction(tree.body)
                imports == {i \in DOMAIN head : head[i].k \in {"Import", "ImportFrom"}}
            IN  /\ IsTypeVarAssign(tree.body[j]) /\ tree.body[j].ln = 0
                /\ j \in DOMAIN head
                /\ \A i \in imports : i < j
                /\ imports # {} => (j - 1) \in imports
                /\ IsDocstring(fx.before.body[1]) => IsDocstring(tree.body[1])

\* The import statements of a module body that import from the typing module.
TypingStatements(t) ==
    {i \in DOMAIN t.body : t.body[i].k = "ImportFrom" /\ t.body[i].module = "typing"}

\* No member of a sequence stands in it twice.
Distinct(names) == \A i, j \in DOMAIN names : names[i] = names[j] => i = j

\* C17: after calls of add_missing_imports and merge_typing_imports the module
\* body holds at most max(1, the number before the calls) import statements
\* for the typing module, and none of them lists a name twice.
C17_OneTypingImportNoDuplicate ==
    fx.op \in {"add_missing_imports", "merge_typing_imports"} =>
        /\ \/ Cardinality(TypingStatements(tree)) <= 1
           \/ Cardinality(TypingStatements(tree)) <= Cardinality(TypingStatements(fx.start))
        /\ \A i \in TypingStatements(tree) : Distinct(tree.body[i].names)

\* The typing names a tree's annotations reference are exactly List and
\* Optional, and the tree has no import of or from the typing module.
ScenarioE(t) ==
    /\ _find_needed_imports(t) = {"List", "Optional"}
    /\ \A i \in DOMAIN t.body :
          /\ t.body[i].k = "ImportFrom" => t.body[i].module # "typing"
          /\ t.body[i].k = "Import" => "typing" \notin Range(t.body[i].names)

\* The number of statements a new import goes after: a leading docstring and
\* the imports that follow it.
RECURSIVE LeadingImports(_)
LeadingImports(body) ==
    IF body # <<>> /\ Head(body).k \in {"Import", "ImportFrom"}
    THEN 1 + LeadingImports(Tail(body))
    ELSE 0
AfterDocstringAndImports(body) ==
    IF body # <<>> /\ IsDocstring(body[1]) THEN 1 + LeadingImports(Tail(body))
    ELSE LeadingImports(body)

\* C18: on a tree that references List and Optional and has no typing import,
\* add_missing_imports returns 2 and inserts the one statement
\* "from typing import List, Optional" after the leading docstring and
\* imports, leaving every other statement as it was; called again it returns
\* 0 and leaves the tree as it is.
C18_ScenarioE ==
    fx.op = "add_missing_imports" =>
        /\ ScenarioE(fx.before) =>
              /\ fx.count = 2
              /\ tree.body = Insert(fx.before.body, AfterDocstringAndImports(fx.before.body),
                                    ImportFrom("typing", <<"List", "Optional">>))
              /\ add_missing_imports(tree) = [tree |-> tree, count |-> 0]
        /\ (ScenarioE(fx.start) /\ fx.before = add_missing_imports(fx.start).tree) =>
              fx.count = 0 /\ tree = fx.before

C18_Witness ==
    /\ fx.op = "add_missing_imports" /\ fx.calls = 2 /\ fx.count = 0
    /\ ScenarioE(fx.start) /\ fx.before = add_missing_imports(fx.start).tree
    /\ IsDocstring(fx.start.body[1]) /\ fx.start.body[2].k = "Import"
    /\ Cardinality(TypingStatements(tree)) = 1

\* C19: when the missing-annotation, nullable-access or collection fixer puts
\* a new node in the slot of an old one (an annotated assignment for an
\* assignment, a conditional expression for an access or a call), the new node
\* carries the old node's line.
C19_ReplacedNodeKeepsLocation ==
    (fx.op \in {"MissingHintsFixer", "OptionalFixer", "CollectionFixer"} /\ fx.fixed) =>
        \A p \in Range(walk(fx.before)) \cap Range(walk(tree)) :
            (/\ NodeAt(fx.before, p).k \in {"Assign", "Attribute", "Call"}
             /\ NodeAt(tree, p).k \in {"AnnAssign", "IfExp"}) =>
                NodeAt(tree, p).ln = NodeAt(fx.before, p).ln

\* The four fixers that take a diagnostic.
Fixers == {"MissingHintsFixer", "OptionalFixer", "GenericFixer", "CollectionFixer"}

\* C24: when fix returns with applied = false, the tree is the tree the
\* fixer was given.
C24_NotAppliedLeavesTree ==
    (fx.op \in Fixers /\ ~fx.err /\ ~fx.fixed) => tree = fx.before

\* C27: when the node found on the diagnostic's line is a call of a method
\* on a name and OptionalFixer.fix reports a fix, the call has become the
\* conditional expression "call if name is not None else None": the call
\* itself is the branch taken when the receiver is not None.
C27_ConditionalWrapsWholeCall ==
    fx.op = "OptionalFixer" =>
        LET p == _find_node_at_line(fx.before, fx.error.line)
            is_method_call(node) ==
                node.k = "Call" /\ node.func.k = "Attribute" /\ node.func.value.k = "Name"
        IN  (p # NoPath /\ is_method_call(NodeAt(fx.before, p)) /\ fx.fixed) =>
                unparse(NodeAt(tree, p)) =
                    IfExp(Compare(Name(NodeAt(fx.before, p).func.value.id), <<"IsNot">>,
                                  <<Constant("NoneType")>>),
                          unparse(NodeAt(fx.before, p)), Constant("NoneType"))

\* C28: after add_missing_imports, every declaration name = TypeVar(...)
\* that GenericFixer put in the module body stands after a statement that
\* imports TypeVar from typing.
C28_TypeVarImportedBeforeDeclared ==
    fx.op = "add_missing_imports" =>
        \A j \in DOMAIN tree.body :
            (IsTypeVarAssign(tree.body[j]) /\ tree.body[j].ln = 0) =>
                \E i \in TypingStatements(tree) :
                    i < j /\ "TypeVar" \in Range(tree.body[i].names)

\* C29: when CollectionFixer.fix annotates an assignment whose value is a
\* list, set or dict literal, the annotation starts with the container of
\* that kind: List, Set or Dict.
C29_ContainerMatchesInitializer ==
    (fx.op = "CollectionFixer" /\ fx.fixed) =>
        \A p \in Range(walk(fx.before)) :
            LET node == NodeAt(fx.before, p)
            IN  (/\ node.k = "Assign" /\ node.value.k \in {"List", "Set", "Dict"}
                 /\ NodeAt(tree, p).k = "AnnAssign") =>
                    Head(unparse_expr(NodeAt(tree, p).annotation)) = node.value.k

\* C30: when CollectionFixer.fix or MissingHintsFixer.fix has turned an
\* assignment into an annotated assignment, the value is the assignment's
\* value, every target of the assignment is the target of the annotated
\* assignment, and for CollectionFixer that target is the name the
\* diagnostic gives.
C30_PromotionKeepsBindings ==
    (fx.op \in {"CollectionFixer", "MissingHintsFixer"} /\ fx.fixed) =>
        \A p \in Range(walk(fx.before)) \cap Range(walk(tree)) :
            LET old == NodeAt(fx.before, p)
                new == NodeAt(tree, p)
            IN  (old.k = "Assign" /\ new.k = "AnnAssign") =>
                    /\ new.value = old.value
                    /\ \A i \in DOMAIN old.targets : old.targets[i] = new.target
                    /\ fx.op = "CollectionFixer" => IsNameOf(new.target, fx.error.name)

(***************************************************************************)
(* MypyParser._categorize_error (parser.py).  A message is the sequence of *)
(* its characters.                                                         *)
(***************************************************************************)

\* str.lower() on the letters that messages are written in.
UpperCase ==
    <<"A", "B", "C", "D", "E", "F", "G", "H", "I", "J", "K", "L", "M", "N", "O", "P", "Q", "R",
      "S", "T", "U", "V", "W", "X", "Y", "Z">>
LowerCase ==
    <<"a", "b", "c", "d", "e", "f", "g", "h", "i", "j", "k", "l", "m", "n", "o", "p", "q", "r",
      "s", "t", "u", "v", "w", "x", "y", "z">>
lower_char(c) ==
    IF \E i \in DOMAIN UpperCase : UpperCase[i] = c
    THEN LowerCase[CHOOSE i \in DOMAIN UpperCase : UpperCase[i] = c]
    ELSE c
lower(message) == [i \in DOMAIN message |-> lower_char(message[i])]

\* pattern in text, for str
Contains(pattern, text) ==
    \E i \in 0..(Len(text) - Len(pattern)) : SubSeq(text, i + 1, i + Len(pattern)) = pattern

\* MypyParser.error_categories, in the order the dict is written in.
error_categories ==
    <<<<<<"m", "i", "s", "s", "i", "n", "g", " ", "r", "e", "t", "u", "r", "n", " ", "t", "y",
           "p", "e">>,
         "missing_type_hint">>,
       <<<<"m", "i", "s", "s", "i", "n", "g", " ", "t", "y", "p", "e", " ", "a", "n", "n", "o",
           "t", "a", "t", "i", "o", "n">>,
         "missing_type_hint">>,
       <<<<"n", "e", "e", "d", " ", "t", "y", "p", "e", " ", "a", "n", "n", "o", "t", "a", "t",
           "i", "o", "n">>,
         "missing_type_hint">>,
       <<<<"i", "t", "e", "m", " ", "\"", "n", "o", "n", "e", "\"", " ", "o", "f", " ", "\"",
           "o", "p", "t", "i", "o", "n", "a", "l">>,
         "optional_none">>,
       <<<<"o", "p", "t", "i", "o", "n", "a", "l", "[">>,
         "optional_none">>,
       <<<<"a", "r", "g", "u", "m", "e", "n", "t", " ", ".", "*", " ", "h", "a", "s", " ", "i",
           "n", "c", "o", "m", "p", "a", "t", "i", "b", "l", "e", " ", "t", "y", "p", "e">>,
         "type_mismatch">>,
       <<<<"i", "n", "c", "o", "m", "p", "a", "t", "i", "b", "l", "e", " ", "r", "e", "t", "u",
           "r", "n", " ", "v", "a", "l", "u", "e", " ", "t", "y", "p", "e">>,
         "return_type_mismatch">>,
       <<<<"h", "a", "s", " ", "t", "y", "p", "e", " ", "\"", "a", "n", "y", "\"">>,
         "any_type">>,
       <<<<"n", "e", "e", "d", " ", "t", "y", "p", "e", " ", "p", "a", "r", "a", "m", "e", "t",
           "e", "r">>,
         "generic_type">>,
       <<<<"l", "i", "s", "t", "[">>,
         "collection_type">>,
       <<<<"d", "i", "c", "t", "[">>,
         "collection_type">>,
       <<<<"s", "e", "t", "[">>,
         "collection_type">>>>

\* A variant of the scan that looks for the phrases in the message as it is
\* written.
RECURSIVE categorize_as_written(_, _)
categorize_as_written(message, i) ==
    IF i > Len(error_categories) THEN "unknown"
    ELSE IF Contains(error_categories[i][1], message) THEN error_categories[i][2]
    ELSE categorize_as_written(message, i + 1)

\* MypyParser._categorize_error: the loop over error_categories.items() from
\* the i-th entry on.
RECURSIVE _categorize_error(_, _)
_categorize_error(message, i) ==
    LET scan(message_lower) ==
            IF i > Len(error_categories) THEN "unknown"
            ELSE IF Contains(error_categories[i][1], message_lower) THEN error_categories[i][2]
            ELSE _categorize_error(message, i + 1)
    IN  scan(lower(message))

\* Pieces of mypy messages.
\* Missing return type annotation
MissingReturn ==
    <<"M", "i", "s", "s", "i", "n", "g", " ", "r", "e", "t", "u", "r", "n", " ", "t", "y", "p",
      "e", " ", "a", "n", "n", "o", "t", "a", "t", "i", "o", "n">>
\* Item "None" of "Optional[User]" has no attribute
ItemNone ==
    <<"I", "t", "e", "m", " ", "\"", "N", "o", "n", "e", "\"", " ", "o", "f", " ", "\"", "O",
      "p", "t", "i", "o", "n", "a", "l", "[", "U", "s", "e", "r", "]", "\"", " ", "h", "a",
      "s", " ", "n", "o", " ", "a", "t", "t", "r", "i", "b", "u", "t", "e">>
\* Need type annotation for "x"
NeedAnnotation ==
    <<"N", "e", "e", "d", " ", "t", "y", "p", "e", " ", "a", "n", "n", "o", "t", "a", "t", "i",
      "o", "n", " ", "f", "o", "r", " ", "\"", "x", "\"">>
\* missing type annotation
MissingAnnotation ==
    <<"m", "i", "s", "s", "i", "n", "g", " ", "t", "y", "p", "e", " ", "a", "n", "n", "o", "t",
      "a", "t", "i", "o", "n">>
\* Argument 1 has incompatible type "List[int]"
ArgumentOne ==
    <<"A", "r", "g", "u", "m", "e", "n", "t", " ", "1", " ", "h", "a", "s", " ", "i", "n", "c",
      "o", "m", "p", "a", "t", "i", "b", "l", "e", " ", "t", "y", "p", "e", " ", "\"", "L",
      "i", "s", "t", "[", "i", "n", "t", "]", "\"">>
\* argument .* has incompatible type
ArgumentPattern ==
    <<"a", "r", "g", "u", "m", "e", "n", "t", " ", ".", "*", " ", "h", "a", "s", " ", "i", "n",
      "c", "o", "m", "p", "a", "t", "i", "b", "l", "e", " ", "t", "y", "p", "e">>
\* Incompatible return value type
ReturnValue ==
    <<"I", "n", "c", "o", "m", "p", "a", "t", "i", "b", "l", "e", " ", "r", "e", "t", "u", "r",
      "n", " ", "v", "a", "l", "u", "e", " ", "t", "y", "p", "e">>
\* Expression has type "Any"
HasAny ==
    <<"E", "x", "p", "r", "e", "s", "s", "i", "o", "n", " ", "h", "a", "s", " ", "t", "y", "p",
      "e", " ", "\"", "A", "n", "y", "\"">>
\* NEED TYPE PARAMETER
NeedParameter ==
    <<"N", "E", "E", "D", " ", "T", "Y", "P", "E", " ", "P", "A", "R", "A", "M", "E", "T", "E",
      "R">>
\* Dict[str
DictOf ==
    <<"D", "i", "c", "t", "[", "s", "t", "r">>
\* reset[
SetOf ==
    <<"r", "e", "s", "e", "t", "[">>
\* Name "x" is not defined
NotDefined ==
    <<"N", "a", "m", "e", " ", "\"", "x", "\"", " ", "i", "s", " ", "n", "o", "t", " ", "d",
      "e", "f", "i", "n", "e", "d">>
\* missing ret
MissingRet ==
    <<"m", "i", "s", "s", "i", "n", "g", " ", "r", "e", "t">>
\* urn type
UrnType ==
    <<"u", "r", "n", " ", "t", "y", "p", "e">>
\* ; expected "Optional
Expected ==
    <<";", " ", "e", "x", "p", "e", "c", "t", "e", "d", " ", "\"", "O", "p", "t", "i", "o",
      "n", "a", "l">>
\* [
Bracket ==
    <<"[">>
MessagePieces ==
    {MissingReturn, ItemNone, NeedAnnotation, MissingAnnotation, ArgumentOne,
     ArgumentPattern, ReturnValue, HasAny, NeedParameter, DictOf, SetOf, NotDefined,
     MissingRet, UrnType, Expected, Bracket}

\* The most pieces in one message.
MaxPieces == 2

\* The messages: up to MaxPieces pieces, one after the other.
RECURSIVE Concat(_)
Concat(pieces) == IF pieces = <<>> THEN <<>> ELSE Head(pieces) \o Concat(Tail(pieces))
Messages ==
    {Concat(pieces) : pieces \in UNION {[1..n -> MessagePieces] : n \in 1..MaxPieces}}

InitParse ==
    /\ \E message \in Messages : par = [stage |-> 1, message |-> message]
    /\ fx = NoFix
    /\ tree = NoNode
    /\ strict = FALSE
    /\ type_cache = <<>>
    /\ inf = NoCall
    /\ uni = [stage |-> 0]
    /\ run = NoRun

\* error['category'] = self._categorize_error(error['message'])
Categorize ==
    /\ par.stage = 1
    /\ par' = [stage |-> 2, message |-> par.message,
               category |-> _categorize_error(par.message, 1)]
    /\ UNCHANGED <<uni, inf, tree, type_cache, strict, run, fx>>

NextParse == Categorize

SpecParse == InitParse /\ [][NextParse]_vars

\* The entries of the table whose phrase stands in the message, letter case
\* set aside.
PhrasesIn(message) ==
    {i \in DOMAIN error_categories :
        LET phrase == error_categories[i][1]
        IN  \E at \in 0..(Len(message) - Len(phrase)) :
                \A k \in DOMAIN phrase : lower_char(message[at + k]) = lower_char(phrase[k])}

\* C20: the category of a message is that of the first entry of the table
\* whose phrase occurs in it whatever the letter case, and "unknown" when no
\* phrase occurs; 'Missing return type annotation' is a missing_type_hint and
\* 'Item "None" of "Optional[User]" has no attribute' an optional_none.
C20_FirstPhraseDecides ==
    par.stage = 2 =>
        /\ IF PhrasesIn(par.message) = {} THEN par.category = "unknown"
           ELSE \E i \in PhrasesIn(par.message) :
                    /\ \A j \in PhrasesIn(par.message) : i <= j
                    /\ par.category = error_categories[i][2]
        /\ par.message = MissingReturn => par.category = "missing_type_hint"
        /\ par.message = ItemNone => par.category = "optional_none"

\* A message written with capitals that holds phrases of two categories.
C20_Witness ==
    /\ par.stage = 2
    /\ Cardinality({error_categories[i][2] : i \in PhrasesIn(par.message)}) >= 2
    /\ lower(par.message) # par.message
    /\ par.category = "optional_none"

(***************************************************************************)
(* MypyParser.parse_errors and _parse_error_line (parser.py).  A line is   *)
(* the sequence of its characters; no line holds a newline.                *)
(***************************************************************************)

\* The character classes of ERROR_PATTERN: \d, \w, \s and [\w-].
DigitChars == <<"0", "1", "2", "3", "4", "5", "6", "7", "8", "9">>
WordChars == Range(UpperCase) \cup Range(LowerCase) \cup Range(DigitChars) \cup {"_"}
SpaceChars == {" ", "\t"}
CodeChars == WordChars \cup {"-"}
QuoteChars == {"'", "\""}

\* The character at a place of a line; none past its end.
At(s, i) == IF i \in DOMAIN s THEN s[i] ELSE ""

\* A greedy run of a class from place i: the place after its last character.
RECURSIVE RunEnd(_, _, _)
RunEnd(s, i, class) == IF At(s, i) \in class THEN RunEnd(s, i + 1, class) ELSE i

\* int(digits)
RECURSIVE int(_)
int(digits) ==
    IF digits = <<>> THEN 0
    ELSE 10 * int(SubSeq(digits, 1, Len(digits) - 1))
             + (CHOOSE n \in 0..9 : DigitChars[n + 1] = digits[Len(digits)])

\* ERROR_PATTERN with the file group ending before place p: the places where
\* the groups line, col, severity and message start and end.
GroupsAt(s, p) ==
    LET places(d1, d2, w) ==
            [ok |-> /\ p > 1 /\ At(s, p) = ":"
                    /\ d1 > p + 1 /\ At(s, d1) = ":"
                    /\ d2 > d1 + 1 /\ At(s, d2) = ":" /\ At(s, d2 + 1) = " "
                    /\ w > d2 + 2 /\ At(s, w) = ":" /\ At(s, w + 1) = " "
                    /\ w + 2 <= Len(s),
             file |-> SubSeq(s, 1, p - 1),
             line |-> SubSeq(s, p + 1, d1 - 1),
             col |-> SubSeq(s, d1 + 1, d2 - 1),
             severity |-> SubSeq(s, d2 + 2, w - 1),
             rest |-> w + 2]
        severity(d1, d2) == places(d1, d2, RunEnd(s, d2 + 2, WordChars))
        col(d1) == severity(d1, RunEnd(s, d1 + 1, Range(DigitChars)))
    IN  col(RunEnd(s, p + 1, Range(DigitChars)))

\* (?:\s+\[(?P<code>[\w-]+)\])?$ after a message that ends at place e: the
\* code group, or no code.
CodeAfter(s, e) ==
    LET code(b, c) ==
            IF b > e + 1 /\ At(s, b) = "[" /\ c > b + 1 /\ c = Len(s) /\ At(s, c) = "]"
            THEN SubSeq(s, b + 1, c - 1) ELSE <<>>
        bracket(b) == code(b, RunEnd(s, b + 1, CodeChars))
    IN  bracket(RunEnd(s, e + 1, SpaceChars))

\* re.search(r"['\"](\w+)['\"]", message).group(1): the first quoted word of
\* the message, or none.
quoted_name(message) ==
    LET quoted(p) ==
            /\ message[p] \in QuoteChars
            /\ RunEnd(message, p + 1, WordChars) > p + 1
            /\ At(message, RunEnd(message, p + 1, WordChars)) \in QuoteChars
        starts == {p \in DOMAIN message : quoted(p)}
        word(p) == SubSeq(message, p + 1, RunEnd(message, p + 1, WordChars) - 1)
    IN  IF starts = {} THEN <<>> ELSE word(CHOOSE p \in starts : \A q \in starts : p <= q)

\* MypyParser._extract_context: context['name'] (the other entries are read
\* by no fixer).
_extract_context(message) == [name |-> quoted_name(message)]

\* match.group('code') or 'no-code'
NoCode == <<"n", "o", "-", "c", "o", "d", "e">>

\* _parse_error_line returns None.
NoRecord == [matched |-> FALSE]

\* A variant of _parse_error_line that takes every line for a diagnostic.
parse_error_line_any(line) ==
    [matched |-> TRUE, file |-> <<>>, line |-> 0, col |-> 0, severity |-> <<>>,
     message |-> line, code |-> <<>>, category |-> _categorize_error(line, 1),
     context |-> _extract_context(line)]

\* MypyParser._parse_error_line: the file group is the shortest that lets the
\* line match, the message the shortest that leaves a code or nothing.
_parse_error_line(line) ==
    LET files == {p \in DOMAIN line : GroupsAt(line, p).ok}
        error(g, e) ==
            [matched |-> TRUE, file |-> g.file, line |-> int(g.line), col |-> int(g.col),
             severity |-> g.severity, message |-> SubSeq(line, g.rest, e),
             code |-> IF CodeAfter(line, e) = <<>> THEN NoCode ELSE CodeAfter(line, e),
             category |-> _categorize_error(SubSeq(line, g.rest, e), 1),
             context |-> _extract_context(SubSeq(line, g.rest, e))]
        ends(g) == {e \in g.rest..Len(line) : e = Len(line) \/ CodeAfter(line, e) # <<>>}
        message(g) == error(g, CHOOSE e \in ends(g) : \A x \in ends(g) : e <= x)
    IN  IF files = {} THEN NoRecord
        ELSE message(GroupsAt(line, CHOOSE p \in files : \A q \in files : p <= q))

\* Pieces of the lines of mypy output.
\* a.py
FileA ==
    <<"a", ".", "p", "y">>
\* C:/b:7:x.py
FileDrive ==
    <<"C", ":", "/", "b", ":", "7", ":", "x", ".", "p", "y">>
\* b:7:3: x: y
FileLikeLine ==
    <<"b", ":", "7", ":", "3", ":", " ", "x", ":", " ", "y">>
\* :10:5: 
PlaceTen ==
    <<":", "1", "0", ":", "5", ":", " ">>
\* :07:12: 
PlaceZero ==
    <<":", "0", "7", ":", "1", "2", ":", " ">>
\* :3: 
PlaceNoCol ==
    <<":", "3", ":", " ">>
\* error: 
SeverityError ==
    <<"e", "r", "r", "o", "r", ":", " ">>
\* note, 
SeverityComma ==
    <<"n", "o", "t", "e", ",", " ">>
\*   [union-attr]
CodeUnion ==
    <<" ", " ", "[", "u", "n", "i", "o", "n", "-", "a", "t", "t", "r", "]">>
\*  [no code]
CodeSpaced ==
    <<" ", "[", "n", "o", " ", "c", "o", "d", "e", "]">>
\* Found 2 errors in 1 file
FoundErrors ==
    <<"F", "o", "u", "n", "d", " ", "2", " ", "e", "r", "r", "o", "r", "s", " ", "i", "n", " ",
      "1", " ", "f", "i", "l", "e">>

\* The lines given to the parser: a file, a place, a severity, a message and
\* a code, and lines of no such form.
ErrorLines ==
    {f \o p \o SeverityError \o MissingReturn :
        f \in {FileA, FileDrive, FileLikeLine}, p \in {PlaceTen, PlaceZero, PlaceNoCol}}
    \cup {FileA \o PlaceTen \o s \o m \o c :
            s \in {SeverityError, SeverityComma}, m \in {ItemNone, NotDefined},
            c \in {<<>>, CodeUnion, CodeSpaced}}
    \cup {FoundErrors, <<>>}

\* The most lines in one call of parse_errors.
MaxErrorLines == 2

InitParseErrors ==
    /\ \E n \in 1..MaxErrorLines : \E error_lines \in [1..n -> ErrorLines] :
          par = [stage |-> 3, error_lines |-> error_lines, at |-> 0, parsed_errors |-> <<>>]
    /\ fx = NoFix
    /\ tree = NoNode
    /\ strict = FALSE
    /\ type_cache = <<>>
    /\ inf = NoCall
    /\ uni = [stage |-> 0]
    /\ run = NoRun

\* for line in error_lines: error = self._parse_error_line(line); if error:
\* parsed_errors.append(error)
LineParsed ==
    /\ par.stage = 3 /\ par.at < Len(par.error_lines)
    /\ _parse_error_line(par.error_lines[par.at + 1]) # NoRecord
    /\ par' = [par EXCEPT !.at = @ + 1,
                          !.parsed_errors =
                              Append(@, _parse_error_line(par.error_lines[par.at + 1]))]
    /\ UNCHANGED <<uni, inf, tree, type_cache, strict, run, fx>>

\* for line in error_lines: the line is no diagnostic
LineDropped ==
    /\ par.stage = 3 /\ par.at < Len(par.error_lines)
    /\ _parse_error_line(par.error_lines[par.at + 1]) = NoRecord
    /\ par' = [par EXCEPT !.at = @ + 1]
    /\ UNCHANGED <<uni, inf, tree, type_cache, strict, run, fx>>

\* return parsed_errors
ReturnParsedErrors ==
    /\ par.stage = 3 /\ par.at = Len(par.error_lines)
    /\ par' = [par EXCEPT !.stage = 4]
    /\ UNCHANGED <<uni, inf, tree, type_cache, strict, run, fx>>

NextParseErrors ==
    \/ LineParsed
    \/ LineDropped
    \/ ReturnParsedErrors

SpecParseErrors == InitParseErrors /\ [][NextParseErrors]_vars

\* The categories a diagnostic can be given.
Categories ==
    {"missing_type_hint", "optional_none", "collection_type", "generic_type",
     "type_mismatch", "return_type_mismatch", "any_type", "unknown"}

\* A line is written file:line:col: severity: message, with digits for line
\* and col, a word for the severity and a message of at least one character.
MatchesGrammar(s) ==
    \E p, d1, d2, w \in {i \in DOMAIN s : s[i] = ":"} :
        /\ 1 < p /\ p + 1 < d1 /\ d1 + 1 < d2 /\ d2 + 2 < w /\ w + 2 <= Len(s)
        /\ s[d2 + 1] = " " /\ s[w + 1] = " "
        /\ \A i \in (p + 1)..(d1 - 1) \cup (d1 + 1)..(d2 - 1) : s[i] \in Range(DigitChars)
        /\ \A i \in (d2 + 2)..(w - 1) : s[i] \in WordChars

\* The lines of a list that match the grammar, in the order of the list.
MatchingLines(lines) == SelectSeq(lines, MatchesGrammar)

\* A sequence starts with another.
StartsWith(s, prefix) == Len(prefix) <= Len(s) /\ SubSeq(s, 1, Len(prefix)) = prefix

\* C21: parse_errors gives one record for each line that matches the
\* grammar, in the order of the lines, none for any other line, and every
\* record has one of the eight categories.
C21_RecordsOfMatchingLines ==
    par.stage \in {3, 4} =>
        LET lines == MatchingLines(SubSeq(par.error_lines, 1, par.at))
        IN  /\ Len(par.parsed_errors) = Len(lines)
            /\ \A k \in DOMAIN par.parsed_errors :
                  /\ par.parsed_errors[k].category \in Categories
                  /\ StartsWith(lines[k], par.parsed_errors[k].file \o <<":">>)
                  /\ Contains(par.parsed_errors[k].message, lines[k])

\* Two diagnostics of different files and lines have been returned in the
\* order they were given in.
C21_Witness ==
    /\ par.stage = 4
    /\ Len(par.parsed_errors) = 2
    /\ par.parsed_errors[1].file # par.parsed_errors[2].file
    /\ par.parsed_errors[1].line > par.parsed_errors[2].line

====
